---- MODULE Spec2Model ----
(***************************************************************************)
(* A model of canvas_to_airtable.py: the retry wrapper, the select         *)
(* validator/coercer, the fast table wipe and the run of main().           *)
(***************************************************************************)
EXTENDS Integers, Sequences, FiniteSets, TLC

(***************************************************************************)
(* Bounds of the model.                                                    *)
(***************************************************************************)
\* largest number of records a remote table holds when a run starts
MaxRecords == 11
\* how many times the wipe driver calls wipe_table_fast on the same table
MaxWipeCalls == 2
\* largest number of student ids of a run
MaxStudents == 3
\* largest number of rows handed to the select validator on its own
MaxRows == 2
\* pages after the first of their listings that the course listings hold in all
MaxExtraPages == 2
\* assignments the pages of the assignment listings hold in all
MaxAssignmentsSeen == 3
\* requests of the assignment listings in all
MaxAssignmentRequests == 3
\* assignments of the course whose rows the row builder on its own is given
MaxFacts == 4
\* courses of the student whose rows the inserts on their own are given
MaxInsertRows == 21

(***************************************************************************)
(* Program constants.                                                      *)
(***************************************************************************)
\* wipe_table_fast: list(_chunks(ids, 10))
DeleteBatchSize == 10
\* number of listings after a deletion during which the remote list may
\* still return the deleted ids (the eventually consistent list of the spec)
StalePasses == 2

Tables == {"detailed", "summary"}
RecordIds == 1..MaxRecords

Min(a, b) == IF a <= b THEN a ELSE b
Max(a, b) == IF a >= b THEN a ELSE b

RECURSIVE SortedSeq(_)
\* the ids of a listing in the order the API returns them (ascending here)
SortedSeq(S) ==
    IF S = {} THEN <<>>
    ELSE LET m == CHOOSE x \in S : \A y \in S : x <= y
         IN  <<m>> \o SortedSeq(S \ {m})

SeqToSet(s) == {s[i] : i \in 1..Len(s)}

ChunksFullOnly(lst, size) ==
    [i \in 1..(Len(lst) \div size) |-> SubSeq(lst, (i - 1) * size + 1, i * size)]
ChunksOverlapping(lst, size) ==
    [i \in 1..((Len(lst) + size - 1) \div size) |->
        SubSeq(lst, (i - 1) * size + 1, Min(i * size + 1, Len(lst)))]
\* _chunks(lst, size): lst[i:i+size] for i in range(0, len(lst), size)
Chunks(lst, size) ==
    [i \in 1..((Len(lst) + size - 1) \div size) |->
        SubSeq(lst, (i - 1) * size + 1, Min(i * size, Len(lst)))]

VARIABLES
    \* ---- the remote store ----
    live,        \* table -> set of record ids the table really holds
    ghost,       \* table -> ids deleted recently, which a stale list may still return
    ghostAge,    \* table -> listings made since the last deletion
    \* ---- wipe_table_fast ----
    wpc,         \* position inside wipe_table_fast
    wtable,      \* the table being wiped
    ids,         \* ids collected by _collect_all_ids
    chunks,      \* list(_chunks(ids, 10))
    submitted,   \* number of chunks handed to the pool
    futures,     \* chunk index -> "queued" | "running" | "ok" | "failed"
    maxWorkers,  \* max(1, FAST_WIPE_WORKERS)
    listings,    \* calls of _collect_all_ids made by the current wipe
    passes,      \* delete phases run by the current wipe
    lastListing, \* ids returned by the last _collect_all_ids
    listOk,      \* whether the last _collect_all_ids got an answer from the API
    deleteFailed,\* whether a delete batch of the current wipe raised
    wipeCalls,   \* calls of wipe_table_fast made so far
    deleteCalls  \* table -> batch_delete tasks started so far

wipeVars == <<wpc, wtable, ids, chunks, submitted, futures, maxWorkers,
              listings, passes, lastListing, listOk, deleteFailed, wipeCalls,
              deleteCalls>>
remoteVars == <<live, ghost, ghostAge>>

(***************************************************************************)
(* _airtable_retry                                                         *)
(***************************************************************************)
DelaysDoubled == <<1, 2, 4, 8>>
\* delays = [0, 1, 2, 4]
Delays == <<0, 1, 2, 4>>
\* _status_from_exc returns None for an exception that carries no response
NoStatus == -1
\* if status in (429, 500, 502, 503, 504)
RetryableStatuses == {429, 500, 502, 503, 504}
\* statuses an attempt of the model may fail with
OtherStatuses == {400, 404, 422}
\* an exception raised by the wrapped call: the attempt that raised it and
\* the status of its response (NoStatus: no response attached)
Exceptions ==
    [attempt : 1..Len(Delays), status : RetryableStatuses \cup OtherStatuses \cup {NoStatus}]
NoExc == [attempt |-> 0, status |-> NoStatus]

\* a call of fn that returned normally, on attempt i
OkCall(i) == [attempt |-> i, status |-> 200]

\* _status_from_exc(e)
StatusFromExc(e) == e.status

IsRetryableAlways(status) == TRUE
\* status in (429, 500, 502, 503, 504); None is not in the tuple
IsRetryable(status) == status \in RetryableStatuses

VARIABLES
    rpc,       \* "loop" | "returned" | "raised"
    rattempt,  \* index into delays of the next iteration of the for loop
    rsleeps,   \* the delay applied before each attempt made so far
    rcalls,    \* outcome of each call of fn: OkCall(i) or the exception raised
    last_exc,  \* last_exc of the code (NoExc: None)
    rraised,   \* the exception raised to the caller (NoExc: none)
    rresult    \* attempt whose result was returned (0: nothing returned, or None)

retryVars == <<rpc, rattempt, rsleeps, rcalls, last_exc, rraised, rresult>>

RetryInit ==
    /\ rpc = "loop"
    /\ rattempt = 1
    /\ rsleeps = <<>>
    /\ rcalls = <<>>
    /\ last_exc = NoExc
    /\ rraised = NoExc
    /\ rresult = 0

\* one iteration of `for d in delays` whose call of fn succeeds
RetryAttemptOk ==
    /\ rpc = "loop"
    /\ rattempt <= Len(Delays)
    /\ rsleeps' = Append(rsleeps, Delays[rattempt])
    /\ rcalls' = Append(rcalls, OkCall(rattempt))
    /\ rresult' = rattempt
    /\ rpc' = "returned"
    /\ UNCHANGED <<rattempt, last_exc, rraised>>

\* one iteration of `for d in delays` whose call of fn raises e
RetryAttemptFail ==
    /\ rpc = "loop"
    /\ rattempt <= Len(Delays)
    /\ \E e \in Exceptions :
        /\ e.attempt = rattempt
        /\ rsleeps' = Append(rsleeps, Delays[rattempt])
        /\ rcalls' = Append(rcalls, e)
        /\ IF IsRetryable(StatusFromExc(e))
           THEN /\ last_exc' = e
                /\ rattempt' = rattempt + 1
                /\ UNCHANGED <<rpc, rraised>>
           ELSE /\ rraised' = e
                /\ rpc' = "raised"
                /\ UNCHANGED <<rattempt, last_exc>>
    /\ UNCHANGED rresult

RetryExhaustSilent ==
    /\ rpc = "loop"
    /\ rattempt > Len(Delays)
    /\ rpc' = "returned"
    /\ UNCHANGED <<rattempt, rsleeps, rcalls, last_exc, rraised, rresult>>
\* after the loop: if last_exc: raise last_exc (else the function returns None)
RetryExhaust ==
    /\ rpc = "loop"
    /\ rattempt > Len(Delays)
    /\ IF last_exc # NoExc
       THEN /\ rraised' = last_exc
            /\ rpc' = "raised"
       ELSE /\ rpc' = "returned"
            /\ UNCHANGED rraised
    /\ UNCHANGED <<rattempt, rsleeps, rcalls, last_exc, rresult>>

\* the two ways a call made through _airtable_retry ends for its caller
RetryOutcomes == {"ok", "raise"}

(***************************************************************************)
(* The remote list operation and _collect_all_ids                          *)
(***************************************************************************)
\* what a listing of table t may return: the records it holds, or, while a
\* deletion is recent, those and the ids just deleted
Listings(t) ==
    {live[t]} \cup (IF ghostAge[t] < StalePasses THEN {live[t] \cup ghost[t]} ELSE {})

\* a list call made through table.all / table.iterate: an answer, or a failure
ListOutcomes(t) ==
    {[ok |-> FALSE, recs |-> {}]} \cup {[ok |-> TRUE, recs |-> l] : l \in Listings(t)}

\* _collect_all_ids: the ids of .all(); when that gave none (it raised, or
\* returned no record), the ids of iterate(); an exception of either is swallowed
CollectAllIds(primary, fallback) ==
    IF primary.recs # {} THEN SortedSeq(primary.recs) ELSE SortedSeq(fallback.recs)

\* whether _collect_all_ids got an answer from the API at all: .all()
\* answered, or it raised and iterate() answered
CollectAnswered(primary, fallback) == primary.ok \/ fallback.ok

(***************************************************************************)
(* wipe_table_fast                                                         *)
(***************************************************************************)
WipeIdle ==
    /\ wpc = "idle"
    /\ wtable = "detailed"
    /\ ids = <<>>
    /\ chunks = <<>>
    /\ submitted = 0
    /\ futures = <<>>
    /\ listings = 0
    /\ passes = 0
    /\ lastListing = {}
    /\ listOk = TRUE
    /\ deleteFailed = FALSE
    /\ wipeCalls = 0
    /\ deleteCalls = [t \in Tables |-> 0]

\* entering wipe_table_fast(table, label)
WipeEnter(t) ==
    /\ wpc' = "collect"
    /\ wtable' = t
    /\ ids' = <<>>
    /\ chunks' = <<>>
    /\ submitted' = 0
    /\ futures' = <<>>
    /\ listings' = 0
    /\ passes' = 0
    /\ lastListing' = {}
    /\ listOk' = TRUE
    /\ deleteFailed' = FALSE
    /\ wipeCalls' = wipeCalls + 1
    /\ UNCHANGED <<maxWorkers, deleteCalls>>

\* where wipe_table_fast goes once its delete tasks are joined
AfterDeleteRelist == "collect"
AfterDelete == "returned"

WipeCollectNoEarlyReturn ==
    /\ wpc = "collect"
    /\ \E primary \in ListOutcomes(wtable), fallback \in ListOutcomes(wtable) :
        LET got == CollectAllIds(primary, fallback) IN
        /\ ids' = got
        /\ lastListing' = SeqToSet(got)
        /\ listOk' = CollectAnswered(primary, fallback)
        /\ listings' = listings + 1
        /\ ghostAge' = [ghostAge EXCEPT ![wtable] = Min(StalePasses, @ + 1)]
        /\ ghost' = [ghost EXCEPT ![wtable] =
                        IF ghostAge[wtable] + 1 >= StalePasses THEN {} ELSE @]
        /\ wpc' = "delete"
        /\ chunks' = Chunks(got, DeleteBatchSize)
        /\ submitted' = 0
        /\ futures' = [i \in 1..Len(Chunks(got, DeleteBatchSize)) |-> "new"]
        /\ passes' = passes + 1
    /\ UNCHANGED <<wtable, maxWorkers, deleteFailed, wipeCalls, deleteCalls, live>>
\* ids = _collect_all_ids(table, label); if not total: return; else the
\* chunks are cut and the pool is opened
WipeCollect ==
    /\ wpc = "collect"
    /\ \E primary \in ListOutcomes(wtable), fallback \in ListOutcomes(wtable) :
        LET got == CollectAllIds(primary, fallback) IN
        /\ ids' = got
        /\ lastListing' = SeqToSet(got)
        /\ listOk' = CollectAnswered(primary, fallback)
        /\ listings' = listings + 1
        /\ ghostAge' = [ghostAge EXCEPT ![wtable] = Min(StalePasses, @ + 1)]
        /\ ghost' = [ghost EXCEPT ![wtable] =
                        IF ghostAge[wtable] + 1 >= StalePasses THEN {} ELSE @]
        /\ IF Len(got) = 0
           THEN /\ wpc' = "returned"
                /\ UNCHANGED <<chunks, submitted, futures, passes>>
           ELSE /\ wpc' = "delete"
                /\ chunks' = Chunks(got, DeleteBatchSize)
                /\ submitted' = 0
                /\ futures' = [i \in 1..Len(Chunks(got, DeleteBatchSize)) |-> "new"]
                /\ passes' = passes + 1
    /\ UNCHANGED <<wtable, maxWorkers, deleteFailed, wipeCalls, deleteCalls, live>>

\* futures.append(ex.submit(_delete_chunk, table, ch)), in the order of chunks
WipeSubmit ==
    /\ wpc = "delete"
    /\ submitted < Len(chunks)
    /\ submitted' = submitted + 1
    /\ futures' = [futures EXCEPT ![submitted + 1] = "queued"]
    /\ UNCHANGED <<wpc, wtable, ids, chunks, maxWorkers, listings, passes,
                   lastListing, listOk, deleteFailed, wipeCalls, deleteCalls, remoteVars>>

Running == {i \in 1..Len(futures) : futures[i] = "running"}
Queued == {i \in 1..Len(futures) : futures[i] = "queued"}

\* a free worker of ThreadPoolExecutor(max_workers) takes the oldest queued task
DeleteStart ==
    /\ wpc = "delete"
    /\ Queued # {}
    /\ Cardinality(Running) < maxWorkers
    /\ LET i == CHOOSE j \in Queued : \A k \in Queued : j <= k IN
        futures' = [futures EXCEPT ![i] = "running"]
    /\ deleteCalls' = [deleteCalls EXCEPT ![wtable] = @ + 1]
    /\ UNCHANGED <<wpc, wtable, ids, chunks, submitted, maxWorkers, listings, passes,
                   lastListing, listOk, deleteFailed, wipeCalls, remoteVars>>

DeleteFinishRequeue ==
    /\ wpc = "delete"
    /\ \E i \in Running, out \in RetryOutcomes :
        IF out = "ok"
        THEN /\ futures' = [futures EXCEPT ![i] = "ok"]
             /\ live' = [live EXCEPT ![wtable] = @ \ SeqToSet(chunks[i])]
             /\ ghost' = [ghost EXCEPT ![wtable] = @ \cup SeqToSet(chunks[i])]
             /\ ghostAge' = [ghostAge EXCEPT ![wtable] = 0]
             /\ UNCHANGED deleteFailed
        ELSE /\ futures' = [futures EXCEPT ![i] =
                              IF deleteCalls[wtable] < 2 * Len(chunks) THEN "queued"
                              ELSE "failed"]
             /\ deleteFailed' = TRUE
             /\ UNCHANGED remoteVars
    /\ UNCHANGED <<wpc, wtable, ids, chunks, submitted, maxWorkers, listings, passes,
                   lastListing, listOk, wipeCalls, deleteCalls>>
DeleteFinishAbort ==
    /\ wpc = "delete"
    /\ \E i \in Running, out \in RetryOutcomes :
        IF out = "ok"
        THEN /\ futures' = [futures EXCEPT ![i] = "ok"]
             /\ live' = [live EXCEPT ![wtable] = @ \ SeqToSet(chunks[i])]
             /\ ghost' = [ghost EXCEPT ![wtable] = @ \cup SeqToSet(chunks[i])]
             /\ ghostAge' = [ghostAge EXCEPT ![wtable] = 0]
             /\ wpc' = wpc
             /\ UNCHANGED deleteFailed
        ELSE /\ futures' = [futures EXCEPT ![i] = "failed"]
             /\ deleteFailed' = TRUE
             /\ wpc' = "returned"
             /\ UNCHANGED remoteVars
    /\ UNCHANGED <<wtable, ids, chunks, submitted, maxWorkers, listings, passes,
                   lastListing, listOk, wipeCalls, deleteCalls>>
\* _delete_chunk(table, ids): _airtable_retry(table.batch_delete, ids)
DeleteFinish ==
    /\ wpc = "delete"
    /\ \E i \in Running, out \in RetryOutcomes :
        IF out = "ok"
        THEN /\ futures' = [futures EXCEPT ![i] = "ok"]
             /\ live' = [live EXCEPT ![wtable] = @ \ SeqToSet(chunks[i])]
             /\ ghost' = [ghost EXCEPT ![wtable] = @ \cup SeqToSet(chunks[i])]
             /\ ghostAge' = [ghostAge EXCEPT ![wtable] = 0]
             /\ UNCHANGED deleteFailed
        ELSE /\ futures' = [futures EXCEPT ![i] = "failed"]
             /\ deleteFailed' = TRUE
             /\ UNCHANGED remoteVars
    /\ UNCHANGED <<wpc, wtable, ids, chunks, submitted, maxWorkers, listings, passes,
                   lastListing, listOk, wipeCalls, deleteCalls>>

WipeReturnUnjoined ==
    /\ wpc = "delete"
    /\ submitted = Len(chunks)
    /\ wpc' = AfterDelete
    /\ UNCHANGED <<wtable, ids, chunks, submitted, futures, maxWorkers, listings, passes,
                   lastListing, listOk, deleteFailed, wipeCalls, deleteCalls, remoteVars>>
\* the as_completed loop has seen every future and the pool is closed:
\* "wipe complete" is printed and wipe_table_fast returns
WipeJoin ==
    /\ wpc = "delete"
    /\ submitted = Len(chunks)
    /\ \A i \in 1..Len(futures) : futures[i] \in {"ok", "failed"}
    /\ wpc' = AfterDelete
    /\ UNCHANGED <<wtable, ids, chunks, submitted, futures, maxWorkers, listings, passes,
                   lastListing, listOk, deleteFailed, wipeCalls, deleteCalls, remoteVars>>

(***************************************************************************)
(* Schema: _single_select_options, _validate_or_coerce_selects,            *)
(* _writable_fieldnames, _filter_rows_to_writable                          *)
(***************************************************************************)
\* Python's None as a row value
NoneV == "<None>"
\* schema.get(...) found no table of that id or name
NoDef == {[name |-> "<no table>", type |-> "<none>", choices |-> <<>>]}

\* a table definition is the set of its fields: [name, type, choices]
\* _single_select_options(table_def): field name -> list of choice names
SingleSelectOptions(table_def) ==
    [fname \in {f.name : f \in {g \in table_def : g.type = "singleSelect"}} |->
        (CHOOSE f \in table_def : f.name = fname /\ f.type = "singleSelect").choices]

\* lines 278-288: per field the distinct non-empty values seen in the rows
\* that are not among the field's options
Missing(rows, options_map) ==
    [fname \in DOMAIN options_map |->
        {rows[i][fname] : i \in {j \in 1..Len(rows) :
            /\ fname \in DOMAIN rows[j]
            /\ rows[j][fname] \notin {NoneV, ""}}} \ SeqToSet(options_map[fname])]

\* lines 300-307: the fallback option of a field
Fallback(choices) == IF "Other" \in SeqToSet(choices) THEN "Other" ELSE choices[1]

\* lines 300-307: every value outside the options of a field that has options
\* becomes the fallback
CoerceRow(r, options_map) ==
    [k \in DOMAIN r |->
        IF /\ k \in DOMAIN options_map
           /\ Len(options_map[k]) > 0
           /\ r[k] \notin SeqToSet(options_map[k])
        THEN Fallback(options_map[k])
        ELSE r[k]]

ValidateFirstRowOnly(rows, table_def, allow) ==
    LET options_map == SingleSelectOptions(table_def)
        missing == Missing(SubSeq(rows, 1, Min(1, Len(rows))), options_map)
    IN  IF \A f \in DOMAIN missing : missing[f] = {}
        THEN [exit |-> FALSE, rows |-> rows]
        ELSE IF ~allow THEN [exit |-> TRUE, rows |-> rows]
        ELSE [exit |-> FALSE,
              rows |-> [i \in 1..Len(rows) |-> CoerceRow(rows[i], options_map)]]
CoerceAlways(rows, table_def, allow) ==
    LET options_map == SingleSelectOptions(table_def)
        missing == Missing(rows, options_map)
    IN  IF ~allow /\ \E f \in DOMAIN missing : missing[f] # {}
        THEN [exit |-> TRUE, rows |-> rows]
        ELSE [exit |-> FALSE,
              rows |-> [i \in 1..Len(rows) |-> CoerceRow(rows[i], options_map)]]
\* _validate_or_coerce_selects(rows, table_def, label) under
\* ALLOW_SELECT_FALLBACK = allow: whether it raises SystemExit(1), and the rows
\* as it leaves them
ValidateOrCoerceSelects(rows, table_def, allow) ==
    LET options_map == SingleSelectOptions(table_def)
        missing == Missing(rows, options_map)
    IN  IF Len(rows) = 0 THEN [exit |-> FALSE, rows |-> rows]
        ELSE IF DOMAIN options_map = {} THEN [exit |-> FALSE, rows |-> rows]
        ELSE IF \A f \in DOMAIN missing : missing[f] = {}
        THEN [exit |-> FALSE, rows |-> rows]
        ELSE IF ~allow THEN [exit |-> TRUE, rows |-> rows]
        ELSE [exit |-> FALSE,
              rows |-> [i \in 1..Len(rows) |-> CoerceRow(rows[i], options_map)]]

NonWritableTypes ==
    {"formula", "rollup", "lookup", "createdTime", "lastModifiedTime", "autoNumber", "button"}

\* _writable_fieldnames(table_def)
WritableFieldnames(table_def) ==
    {f.name : f \in {g \in table_def :
        /\ g.name # ""
        /\ g.type \notin NonWritableTypes
        /\ g.type # "multipleRecordLinks"}}

FilterRowsKeepComputed(rows, table_def) ==
    [i \in 1..Len(rows) |->
        [k \in DOMAIN rows[i] \cap {f.name : f \in table_def} |-> rows[i][k]]]
\* _filter_rows_to_writable(rows, table_def, label), table_def given
FilterRowsToWritable(rows, table_def) ==
    [i \in 1..Len(rows) |->
        [k \in DOMAIN rows[i] \cap WritableFieldnames(table_def) |-> rows[i][k]]]

\* _field_type(table_def, field_name); "" stands for None
FieldType(table_def, field_name) ==
    IF \E f \in table_def : f.name = field_name
    THEN (CHOOSE f \in table_def : f.name = field_name).type
    ELSE ""

(***************************************************************************)
(* main(): inputs of the model                                             *)
(***************************************************************************)
\* display names the profile endpoint may return
Names == {"Ann", "Bob"}

\* one entry of the per-course list built at lines 543-552: the assignment
\* with the keys of get_submission merged in
Fact(name, due, status, grade) ==
    [assignment_name |-> name, due_date |-> due, submission_status |-> status, grade |-> grade]

\* one retained course of a student with its assignment facts
Course(term, name, facts) == [term_name |-> term, course_name |-> name, facts |-> facts]

\* what the crawl of one student may yield: the retained courses in order
CourseLists ==
    { <<Course("T1", "Math", <<Fact("hw1", "2024-05-01", "graded", "B+"),
                               Fact("hw2", NoneV, "unsubmitted", "N/A")>>),
        Course("T1", "Art", <<>>)>>,
      <<Course("T1", "Math", <<Fact("hw1", NoneV, "excused", "Excused")>>),
        Course("T1", "Math", <<Fact("quiz", NoneV, "graded", "A")>>)>> }

\* the step of the try block at which the crawl of a student may raise
FailStages == {"profile", "courses", "assignments", "submission"}

TextField(n) == [name |-> n, type |-> "singleLineText", choices |-> <<>>]
DetailedTextFields ==
    {TextField(n) : n \in {"Student Name", "Term Name", "Course Name",
                           "Assignment Name", "Due Date"}}
\* definitions the schema endpoint may give for the detailed table
DetailedDefs ==
    { NoDef,
      DetailedTextFields \cup
        {[name |-> "Submission Status", type |-> "singleSelect",
          choices |-> <<"graded", "excused", "unsubmitted">>],
         [name |-> "Grade", type |-> "formula", choices |-> <<>>]},
      DetailedTextFields \cup
        {[name |-> "Submission Status", type |-> "singleSelect",
          choices |-> <<"graded", "Other">>],
         TextField("Grade")} }

SummaryNumberFields ==
    {[name |-> n, type |-> "number", choices |-> <<>>] :
        n \in {"Total Assignments", "Completed", "Unsubmitted"}}
\* definitions the schema endpoint may give for the summary table
SummaryDefs ==
    { NoDef,
      SummaryNumberFields \cup
        {TextField("Student Name"), TextField("Term Name"), TextField("Course Name"),
         TextField("Percentage Completed")},
      SummaryNumberFields \cup
        {TextField("Student Name"), TextField("Term Name"),
         [name |-> "Course Name", type |-> "singleSelect", choices |-> <<"Math">>],
         [name |-> "Percentage Completed", type |-> "percent", choices |-> <<>>]} }

(***************************************************************************)
(* main(): dictionaries and the row builder                                *)
(***************************************************************************)
\* d[k] = v on a dict kept as the sequence of its items in insertion order:
\* an existing key keeps its place and takes the new value
DictPut(d, k, v, owner) ==
    IF \E i \in 1..Len(d) : d[i].key = k
    THEN [i \in 1..Len(d) |-> IF d[i].key = k THEN [key |-> k, val |-> v, owner |-> owner]
                                               ELSE d[i]]
    ELSE Append(d, [key |-> k, val |-> v, owner |-> owner])

RECURSIVE AllData(_, _)
\* lines 522-552: all_data[(term_name, course_name)] = [...] course by course
AllData(courses, owner) ==
    IF courses = <<>> THEN <<>>
    ELSE LET n == Len(courses)
             c == courses[n]
         IN  DictPut(AllData(SubSeq(courses, 1, n - 1), owner),
                     <<c.term_name, c.course_name>>, c.facts, owner)

\* lines 576-584
DetailRow(student_name, key, a) ==
    ("Student Name" :> student_name) @@ ("Term Name" :> key[1]) @@
    ("Course Name" :> key[2]) @@ ("Assignment Name" :> a.assignment_name) @@
    ("Due Date" :> a.due_date) @@ ("Submission Status" :> a.submission_status) @@
    ("Grade" :> a.grade)

CompletedGradedOnly(facts) ==
    Cardinality({i \in 1..Len(facts) : facts[i].submission_status = "graded"})
\* line 571
Completed(facts) ==
    Cardinality({i \in 1..Len(facts) : facts[i].submission_status \in {"graded", "excused"}})

\* line 573: completed / total as the fraction <<numerator, denominator>>; 0.0 is <<0, 1>>
Pct(completed, total) == IF total > 0 THEN <<completed, total>> ELSE <<0, 1>>

\* lines 570-573, 586-594
SummaryRow(student_name, key, facts) ==
    ("Student Name" :> student_name) @@ ("Term Name" :> key[1]) @@
    ("Course Name" :> key[2]) @@ ("Total Assignments" :> Len(facts)) @@
    ("Completed" :> Completed(facts)) @@
    ("Unsubmitted" :> Len(facts) - Completed(facts)) @@
    ("Percentage Completed" :> Pct(Completed(facts), Len(facts)))

RECURSIVE CourseDetailRows(_, _, _)
CourseDetailRows(student_name, key, facts) ==
    IF facts = <<>> THEN <<>>
    ELSE <<DetailRow(student_name, key, Head(facts))>> \o
         CourseDetailRows(student_name, key, Tail(facts))

RECURSIVE StudentDetailRows(_, _)
StudentDetailRows(student_name, data) ==
    IF data = <<>> THEN <<>>
    ELSE CourseDetailRows(student_name, Head(data).key, Head(data).val) \o
         StudentDetailRows(student_name, Tail(data))

RECURSIVE BuildDetailed(_)
\* lines 565-584: detailed_rows in the order of students_data.items()
BuildDetailed(sd) ==
    IF sd = <<>> THEN <<>>
    ELSE StudentDetailRows(Head(sd).key, Head(sd).val) \o BuildDetailed(Tail(sd))

RECURSIVE BuildDetailedOwners(_)
\* for each row of BuildDetailed(sd), the student id whose crawl produced it
BuildDetailedOwners(sd) ==
    IF sd = <<>> THEN <<>>
    ELSE [i \in 1..Len(StudentDetailRows(Head(sd).key, Head(sd).val)) |-> Head(sd).owner]
         \o BuildDetailedOwners(Tail(sd))

RECURSIVE BuildSummary(_)
\* lines 565-594: summary_rows in the order of students_data.items()
BuildSummary(sd) ==
    IF sd = <<>> THEN <<>>
    ELSE [i \in 1..Len(Head(sd).val) |->
            SummaryRow(Head(sd).key, Head(sd).val[i].key, Head(sd).val[i].val)]
         \o BuildSummary(Tail(sd))

RECURSIVE BuildSummaryOwners(_)
\* for each row of BuildSummary(sd), the student id whose crawl produced it
BuildSummaryOwners(sd) ==
    IF sd = <<>> THEN <<>>
    ELSE [i \in 1..Len(Head(sd).val) |-> Head(sd).owner] \o BuildSummaryOwners(Tail(sd))

\* f"{v*100:.2f}%" of the fraction v, as the number of hundredths of a percent
FormatPct(v) == [percent_text |-> (2 * 10000 * v[1] + v[2]) \div (2 * v[2])]

\* _coerce_percentage_for_schema(rows, table_def, field_name)
CoercePercentageForSchema(rows, table_def, field_name) ==
    IF FieldType(table_def, field_name) = "singleLineText"
    THEN [i \in 1..Len(rows) |->
            [k \in DOMAIN rows[i] |->
                IF k = field_name THEN FormatPct(rows[i][k]) ELSE rows[i][k]]]
    ELSE rows

(***************************************************************************)
(* main()                                                                  *)
(***************************************************************************)
VARIABLES
    pc,            \* position inside main()
    user_ids,      \* the parsed student ids
    stuIdx,        \* index of the next student of `for user_id in user_ids`
    crawled,       \* per student crawled so far: whether it succeeded, and what it gave
    students_data, \* dict student_name -> all_data, as its items in order
    detailed_rows,
    summary_rows,
    dOwner,        \* per detailed row, the student id it was built from
    sOwner,        \* per summary row, the student id it was built from
    detailed_def,
    summary_def,
    allowFallback, \* ALLOW_SELECT_FALLBACK
    skipWipe,      \* PARTNER_NAME ends with _P2, or SKIP_WIPE=1
    widx,          \* index of the next batch of the insert under way
    created,       \* table -> the batches batch_create stored, in order
    stages,        \* the stages of the run entered so far, in order
    wiped,         \* tables whose wipe_table_fast has returned in this run
    validated      \* select validation of both tables has passed

mainVars == <<pc, user_ids, stuIdx, crawled, students_data, detailed_rows, summary_rows,
              dOwner, sOwner, detailed_def, summary_def, allowFallback, skipWipe, widx,
              created, stages, wiped, validated>>

MainIdle ==
    /\ user_ids = <<>>
    /\ stuIdx = 1
    /\ crawled = <<>>
    /\ students_data = <<>>
    /\ detailed_rows = <<>>
    /\ summary_rows = <<>>
    /\ dOwner = <<>>
    /\ sOwner = <<>>
    /\ detailed_def = NoDef
    /\ summary_def = NoDef
    /\ allowFallback = FALSE
    /\ skipWipe = FALSE
    /\ widx = 1
    /\ created = [t \in Tables |-> <<>>]
    /\ stages = <<>>
    /\ wiped = {}
    /\ validated = FALSE

\* FAST_WIPE_WORKERS values of the model
WorkerSettings == {0, 1, 2}

\* _airtable_preflight() (the write probe is switched off)
Preflight ==
    /\ pc = "start"
    /\ \E o1 \in RetryOutcomes, o2 \in RetryOutcomes :
        pc' = IF o1 = "ok" /\ o2 = "ok" THEN "parse" ELSE "error"
    /\ UNCHANGED <<user_ids, stuIdx, crawled, students_data, detailed_rows, summary_rows,
                   dOwner, sOwner, detailed_def, summary_def, allowFallback, skipWipe,
                   widx, created, stages, wiped, validated>>
    /\ UNCHANGED <<wipeVars, remoteVars>>

ParseIdsNoEarlyReturn ==
    /\ pc = "parse"
    /\ \E n \in 0..MaxStudents :
        /\ user_ids' = [i \in 1..n |-> i]
        /\ pc' = "wipe"
    /\ UNCHANGED <<stuIdx, crawled, students_data, detailed_rows, summary_rows,
                   dOwner, sOwner, detailed_def, summary_def, allowFallback, skipWipe,
                   widx, created, stages, wiped, validated>>
    /\ UNCHANGED <<wipeVars, remoteVars>>
\* lines 490-499: the ids are parsed; with none the run returns
ParseIds ==
    /\ pc = "parse"
    /\ \E n \in 0..MaxStudents :
        /\ user_ids' = [i \in 1..n |-> i]
        /\ pc' = IF n = 0 THEN "nothing_to_do" ELSE "wipe"
    /\ UNCHANGED <<stuIdx, crawled, students_data, detailed_rows, summary_rows,
                   dOwner, sOwner, detailed_def, summary_def, allowFallback, skipWipe,
                   widx, created, stages, wiped, validated>>
    /\ UNCHANGED <<wipeVars, remoteVars>>

WipeDecideNever ==
    /\ pc = "wipe"
    /\ \E skip \in BOOLEAN :
        /\ skipWipe' = skip
        /\ pc' = "crawl"
        /\ stages' = stages
        /\ UNCHANGED wipeVars
    /\ UNCHANGED <<user_ids, stuIdx, crawled, students_data, detailed_rows, summary_rows,
                   dOwner, sOwner, detailed_def, summary_def, allowFallback,
                   widx, created, wiped, validated>>
    /\ UNCHANGED remoteVars
\* lines 501-507: the wipe is skipped, or wipe_table_fast(tbl_detailed) is entered
WipeDecide ==
    /\ pc = "wipe"
    /\ \E skip \in BOOLEAN :
        /\ skipWipe' = skip
        /\ IF skip
           THEN /\ pc' = "crawl"
                /\ stages' = stages
                /\ UNCHANGED wipeVars
           ELSE /\ pc' = "wipe_detailed"
                /\ stages' = Append(stages, "wipe")
                /\ WipeEnter("detailed")
    /\ UNCHANGED <<user_ids, stuIdx, crawled, students_data, detailed_rows, summary_rows,
                   dOwner, sOwner, detailed_def, summary_def, allowFallback,
                   widx, created, wiped, validated>>
    /\ UNCHANGED remoteVars

\* line 508: wipe_table_fast(tbl_detailed) has returned, wipe_table_fast(tbl_summary) is entered
WipeDetailedDone ==
    /\ pc = "wipe_detailed"
    /\ wpc = "returned"
    /\ pc' = "wipe_summary"
    /\ wiped' = wiped \cup {"detailed"}
    /\ WipeEnter("summary")
    /\ UNCHANGED <<user_ids, stuIdx, crawled, students_data, detailed_rows, summary_rows,
                   dOwner, sOwner, detailed_def, summary_def, allowFallback, skipWipe,
                   widx, created, stages, validated>>
    /\ UNCHANGED remoteVars

\* wipe_table_fast(tbl_summary) has returned; its locals are gone
WipeSummaryDone ==
    /\ pc = "wipe_summary"
    /\ wpc = "returned"
    /\ pc' = "crawl"
    /\ wiped' = wiped \cup {"summary"}
    /\ wpc' = "idle"
    /\ wtable' = "detailed"
    /\ ids' = <<>>
    /\ chunks' = <<>>
    /\ submitted' = 0
    /\ futures' = <<>>
    /\ listings' = 0
    /\ passes' = 0
    /\ lastListing' = {}
    /\ listOk' = TRUE
    /\ deleteFailed' = FALSE
    /\ UNCHANGED <<maxWorkers, wipeCalls, deleteCalls>>
    /\ UNCHANGED <<user_ids, stuIdx, crawled, students_data, detailed_rows, summary_rows,
                   dOwner, sOwner, detailed_def, summary_def, allowFallback, skipWipe,
                   widx, created, stages, validated>>
    /\ UNCHANGED remoteVars

\* the crawl of a student that failed
FailedCrawl == [ok |-> FALSE, name |-> "", courses |-> <<>>]

\* lines 515-562: one iteration of `for user_id in user_ids`: the profile, the
\* courses, their assignments and submissions are fetched; an exception of any
\* of these is caught and the loop goes on; students_data is set last
CrawlStudent ==
    /\ pc = "crawl"
    /\ stuIdx <= Len(user_ids)
    /\ \E fail \in FailStages \cup {"none"}, name \in Names, courses \in CourseLists :
        /\ students_data' =
              IF fail = "none"
              THEN DictPut(students_data, name,
                           AllData(courses, user_ids[stuIdx]), user_ids[stuIdx])
              ELSE students_data
        /\ crawled' = Append(crawled,
              IF fail = "none" THEN [ok |-> TRUE, name |-> name, courses |-> courses]
              ELSE FailedCrawl)
    /\ stuIdx' = stuIdx + 1
    /\ stages' = IF stuIdx = 1 THEN Append(stages, "crawl") ELSE stages
    /\ UNCHANGED <<pc, user_ids, detailed_rows, summary_rows,
                   dOwner, sOwner, detailed_def, summary_def, allowFallback, skipWipe,
                   widx, created, wiped, validated>>
    /\ UNCHANGED <<wipeVars, remoteVars>>

\* lines 565-597: the loop over the students is over; the rows are flattened
BuildRows ==
    /\ pc = "crawl"
    /\ stuIdx > Len(user_ids)
    /\ detailed_rows' = BuildDetailed(students_data)
    /\ summary_rows' = BuildSummary(students_data)
    /\ dOwner' = BuildDetailedOwners(students_data)
    /\ sOwner' = BuildSummaryOwners(students_data)
    /\ stages' = Append(stages, "build")
    /\ pc' = "schema"
    /\ UNCHANGED <<user_ids, stuIdx, crawled, students_data,
                   detailed_def, summary_def, allowFallback, skipWipe,
                   widx, created, wiped, validated>>
    /\ UNCHANGED <<wipeVars, remoteVars>>

FetchSchemaSkipValidation ==
    /\ pc = "schema"
    /\ stages' = Append(stages, "schema")
    /\ \E out \in {"ok", "raise"}, dd \in DetailedDefs, sd \in SummaryDefs :
        IF out = "raise"
        THEN /\ pc' = "error"
             /\ UNCHANGED <<detailed_def, summary_def>>
        ELSE /\ pc' = "filter"
             /\ detailed_def' = dd
             /\ summary_def' = sd
    /\ UNCHANGED <<user_ids, stuIdx, crawled, students_data, detailed_rows, summary_rows,
                   dOwner, sOwner, allowFallback, skipWipe, widx, created, wiped, validated>>
    /\ UNCHANGED <<wipeVars, remoteVars>>
\* lines 599-603: _fetch_base_schema() raises, or gives the two definitions
FetchSchema ==
    /\ pc = "schema"
    /\ stages' = Append(stages, "schema")
    /\ \E out \in {"ok", "raise"}, dd \in DetailedDefs, sd \in SummaryDefs :
        IF out = "raise"
        THEN /\ pc' = "error"
             /\ UNCHANGED <<detailed_def, summary_def>>
        ELSE /\ pc' = "validate"
             /\ detailed_def' = dd
             /\ summary_def' = sd
    /\ UNCHANGED <<user_ids, stuIdx, crawled, students_data, detailed_rows, summary_rows,
                   dOwner, sOwner, allowFallback, skipWipe, widx, created, wiped, validated>>
    /\ UNCHANGED <<wipeVars, remoteVars>>

\* a table without a definition is not validated
ValidateIfDef(rows, table_def, allow) ==
    IF table_def # NoDef THEN ValidateOrCoerceSelects(rows, table_def, allow)
    ELSE [exit |-> FALSE, rows |-> rows]

\* lines 604-608: the detailed rows, then the summary rows are validated;
\* SystemExit(1) of either ends the run
ValidateSelects ==
    /\ pc = "validate"
    /\ stages' = Append(stages, "validate")
    /\ \E allow \in BOOLEAN :
        LET vd == ValidateIfDef(detailed_rows, detailed_def, allow)
            vs == ValidateIfDef(summary_rows, summary_def, allow)
        IN  /\ allowFallback' = allow
            /\ detailed_rows' = vd.rows
            /\ summary_rows' = IF vd.exit THEN summary_rows ELSE vs.rows
            /\ pc' = IF vd.exit \/ vs.exit THEN "exit" ELSE "filter"
            /\ validated' = ~(vd.exit \/ vs.exit)
    /\ UNCHANGED <<user_ids, stuIdx, crawled, students_data, dOwner, sOwner,
                   detailed_def, summary_def, skipWipe, widx, created, wiped>>
    /\ UNCHANGED <<wipeVars, remoteVars>>

\* lines 610-618: the percentage is formatted for a text field, the
\* non-writable fields are dropped
FilterRows ==
    /\ pc = "filter"
    /\ stages' = Append(stages, "filter")
    /\ detailed_rows' =
          IF detailed_def # NoDef THEN FilterRowsToWritable(detailed_rows, detailed_def)
          ELSE detailed_rows
    /\ summary_rows' =
          IF summary_def # NoDef
          THEN FilterRowsToWritable(
                  CoercePercentageForSchema(summary_rows, summary_def, "Percentage Completed"),
                  summary_def)
          ELSE summary_rows
    /\ pc' = "write_detailed"
    /\ widx' = 1
    /\ UNCHANGED <<user_ids, stuIdx, crawled, students_data, dOwner, sOwner,
                   detailed_def, summary_def, allowFallback, skipWipe, created, wiped,
                   validated>>
    /\ UNCHANGED <<wipeVars, remoteVars>>

\* for i, chunk in enumerate(_chunks(rows, 10), start=1)
WriteBatchSize == 10
WriteTable == IF pc = "write_detailed" THEN "detailed" ELSE "summary"
WriteRows == IF pc = "write_detailed" THEN detailed_rows ELSE summary_rows

InsertBatchSwallow ==
    /\ pc \in {"write_detailed", "write_summary"}
    /\ widx <= Len(Chunks(WriteRows, WriteBatchSize))
    /\ \E out \in RetryOutcomes :
        /\ created' = IF out = "ok"
                      THEN [created EXCEPT ![WriteTable] =
                              Append(@, Chunks(WriteRows, WriteBatchSize)[widx])]
                      ELSE created
        /\ widx' = widx + 1
        /\ pc' = pc
    /\ stages' = IF pc = "write_detailed" /\ widx = 1 THEN Append(stages, "write") ELSE stages
    /\ UNCHANGED <<user_ids, stuIdx, crawled, students_data, detailed_rows, summary_rows,
                   dOwner, sOwner, detailed_def, summary_def, allowFallback, skipWipe,
                   wiped, validated>>
    /\ UNCHANGED <<wipeVars, remoteVars>>
\* airtable_insert_detailed / airtable_insert_summary: one batch_create under
\* the retry policy; its exception is re-raised and ends main()
InsertBatch ==
    /\ pc \in {"write_detailed", "write_summary"}
    /\ widx <= Len(Chunks(WriteRows, WriteBatchSize))
    /\ \E out \in RetryOutcomes :
        IF out = "ok"
        THEN /\ created' = [created EXCEPT ![WriteTable] =
                              Append(@, Chunks(WriteRows, WriteBatchSize)[widx])]
             /\ widx' = widx + 1
             /\ pc' = pc
        ELSE /\ pc' = "error"
             /\ UNCHANGED <<created, widx>>
    /\ stages' = IF pc = "write_detailed" /\ widx = 1 THEN Append(stages, "write") ELSE stages
    /\ UNCHANGED <<user_ids, stuIdx, crawled, students_data, detailed_rows, summary_rows,
                   dOwner, sOwner, detailed_def, summary_def, allowFallback, skipWipe,
                   wiped, validated>>
    /\ UNCHANGED <<wipeVars, remoteVars>>

\* the insert has no batch left (or no row at all) and returns
InsertReturn ==
    /\ pc \in {"write_detailed", "write_summary"}
    /\ widx > Len(Chunks(WriteRows, WriteBatchSize))
    /\ pc' = IF pc = "write_detailed" THEN "write_summary" ELSE "returned"
    /\ widx' = 1
    /\ UNCHANGED <<user_ids, stuIdx, crawled, students_data, detailed_rows, summary_rows,
                   dOwner, sOwner, detailed_def, summary_def, allowFallback, skipWipe,
                   created, stages, wiped, validated>>
    /\ UNCHANGED <<wipeVars, remoteVars>>

(***************************************************************************)
(* _validate_or_coerce_selects on its own                                  *)
(***************************************************************************)
VARIABLES
    sel_pc,    \* "idle" | "called" | "returned" | "exit"
    sel_rows,  \* the rows passed in
    sel_def,   \* the table definition passed in
    sel_allow, \* ALLOW_SELECT_FALLBACK
    sel_out    \* the rows as the call left them

selVars == <<sel_pc, sel_rows, sel_def, sel_allow, sel_out>>

SelIdle ==
    /\ sel_pc = "idle"
    /\ sel_rows = <<>>
    /\ sel_def = NoDef
    /\ sel_allow = FALSE
    /\ sel_out = <<>>

\* values a row of the validator's inputs holds in a field
SelValues == {"A", "C", "", NoneV}
SelFields == {"Status", "Grade"}
\* a row holds any subset of the fields
SelRowSet == UNION {[d -> SelValues] : d \in SUBSET SelFields}
SelRowSeqs == UNION {[1..n -> SelRowSet] : n \in 0..MaxRows}
\* definitions of the table: Status and Grade, each a select or a text field
SelDefs ==
    { {[name |-> "Status", type |-> st.type, choices |-> st.choices],
       [name |-> "Grade", type |-> gr.type, choices |-> gr.choices]} :
      st \in {[type |-> "singleSelect", choices |-> <<"A", "B">>],
              [type |-> "singleSelect", choices |-> <<"B", "Other">>],
              [type |-> "singleSelect", choices |-> <<>>]},
      gr \in {[type |-> "singleSelect", choices |-> <<"A">>],
              [type |-> "singleLineText", choices |-> <<>>]} }

SelInit ==
    /\ sel_pc = "called"
    /\ sel_rows \in SelRowSeqs
    /\ sel_def \in SelDefs
    /\ sel_allow \in BOOLEAN
    /\ sel_out = <<>>

\* the call of _validate_or_coerce_selects(rows, table_def, label)
SelValidate ==
    /\ sel_pc = "called"
    /\ LET v == ValidateOrCoerceSelects(sel_rows, sel_def, sel_allow) IN
        /\ sel_pc' = IF v.exit THEN "exit" ELSE "returned"
        /\ sel_out' = v.rows
    /\ UNCHANGED <<sel_rows, sel_def, sel_allow>>

(***************************************************************************)
(* get_submission                                                          *)
(***************************************************************************)
\* a key the JSON object does not hold
Absent == "<absent>"
\* values of the keys of a submission object (true and false as "true", "false")
SubExcusedValues == {"true", "false", NoneV, Absent}
SubStates == {"graded", "submitted", "unsubmitted", "pending_review", Absent}
SubGrades == {"A", "", "-", NoneV, Absent}
\* status of the response of the submission endpoint (NoStatus: an error
\* without a response)
SubHttp == {200, 404, 403, 500, NoStatus}

\* d.get(k, default)
DictGet(d, k, default) == IF d[k] = Absent THEN default ELSE d[k]
\* the truth value Python gives v
Truthy(v) == v \notin {"false", NoneV, "", Absent}

Unsubmitted == [raised |-> FALSE, submission_status |-> "unsubmitted", grade |-> "N/A"]
Raised == [raised |-> TRUE, submission_status |-> "", grade |-> ""]

GetSubmissionGradeFirst(http, sub) ==
    IF http = 200
    THEN LET state == DictGet(sub, "workflow_state", "unsubmitted")
             grade == DictGet(sub, "grade", "N/A")
         IN  IF state \in {"graded", "submitted"} /\ grade \notin {NoneV, "-", ""}
             THEN [raised |-> FALSE, submission_status |-> "graded", grade |-> grade]
             ELSE IF Truthy(DictGet(sub, "excused", "false"))
             THEN [raised |-> FALSE, submission_status |-> "excused", grade |-> "Excused"]
             ELSE Unsubmitted
    ELSE IF http = 404 THEN Unsubmitted
    ELSE Raised
\* get_submission(course_id, assignment_id, user_id), given the status of the
\* response and its JSON object
GetSubmission(http, sub) ==
    IF http = 200
    THEN LET state == DictGet(sub, "workflow_state", "unsubmitted")
             grade == DictGet(sub, "grade", "N/A")
         IN  IF Truthy(DictGet(sub, "excused", "false"))
             THEN [raised |-> FALSE, submission_status |-> "excused", grade |-> "Excused"]
             ELSE IF state \in {"graded", "submitted"} /\ grade \notin {NoneV, "-", ""}
             THEN [raised |-> FALSE, submission_status |-> "graded", grade |-> grade]
             ELSE Unsubmitted
    ELSE IF http = 404 THEN Unsubmitted
    ELSE Raised

VARIABLES
    sub_pc,    \* "idle" | "called" | "returned" | "raised"
    sub_http,  \* status of the response
    sub_json,  \* the JSON object of the response
    sub_out    \* what get_submission returned

subVars == <<sub_pc, sub_http, sub_json, sub_out>>

SubIdle ==
    /\ sub_pc = "idle"
    /\ sub_http = 200
    /\ sub_json = [excused |-> Absent, workflow_state |-> Absent, grade |-> Absent]
    /\ sub_out = Raised

SubInit ==
    /\ sub_pc = "called"
    /\ sub_http \in SubHttp
    /\ sub_json \in [excused : SubExcusedValues, workflow_state : SubStates, grade : SubGrades]
    /\ sub_out = Raised

\* the call of get_submission
SubmissionCall ==
    /\ sub_pc = "called"
    /\ LET r == GetSubmission(sub_http, sub_json) IN
        /\ sub_out' = r
        /\ sub_pc' = IF r.raised THEN "raised" ELSE "returned"
    /\ UNCHANGED <<sub_http, sub_json>>

(***************************************************************************)
(* get_all_active_courses_admin                                            *)
(***************************************************************************)
\* states = ["active", "invited_or_pending", "completed", "inactive"]
EnrollmentStates == <<"active", "invited_or_pending", "completed", "inactive">>
\* course ids of the model
CourseIds == {101, 102}

RECURSIVE AddUnseenPerPage(_, _, _)
AddUnseenPerPage(acc, data, pageSeen) ==
    IF data = <<>> THEN acc
    ELSE LET c == Head(data) IN
         IF c.id # 0 /\ c.id \notin pageSeen
         THEN AddUnseenPerPage([seen |-> acc.seen \cup {c.id},
                                courses |-> Append(acc.courses, c)],
                               Tail(data), pageSeen \cup {c.id})
         ELSE AddUnseenPerPage(acc, Tail(data), pageSeen)
AddUnseenOfPage(acc, data) == AddUnseenPerPage(acc, data, {})

RECURSIVE AddUnseen(_, _)
\* for c in data: if cid and cid not in seen: seen.add(cid); courses.append(c)
AddUnseen(acc, data) ==
    IF data = <<>> THEN acc
    ELSE LET c == Head(data) IN
         IF c.id # 0 /\ c.id \notin acc.seen
         THEN AddUnseen([seen |-> acc.seen \cup {c.id},
                         courses |-> Append(acc.courses, c)], Tail(data))
         ELSE AddUnseen(acc, Tail(data))

VARIABLES
    crs_pc,      \* "idle" | "fetch" | "returned" | "raised"
    crs_es,      \* index of the enrollment state being listed
    crs_page,    \* number of the page `endpoint` points to
    crs_seen,    \* seen
    crs_courses, \* courses
    crs_served   \* the pages the server has answered with, in order

crsVars == <<crs_pc, crs_es, crs_page, crs_seen, crs_courses, crs_served>>

CrsIdle ==
    /\ crs_pc = "idle"
    /\ crs_es = 1
    /\ crs_page = 1
    /\ crs_seen = {}
    /\ crs_courses = <<>>
    /\ crs_served = <<>>

\* the call of get_all_active_courses_admin(user_id, term_id=None)
CrsInit ==
    /\ crs_pc = "fetch"
    /\ crs_es = 1
    /\ crs_page = 1
    /\ crs_seen = {}
    /\ crs_courses = <<>>
    /\ crs_served = <<>>

\* pages after the first of their listings that the server has answered with
ExtraPagesServed == Cardinality({i \in 1..Len(crs_served) : crs_served[i].page > 1})

\* the course records of a page: the ids in ascending order, each record
\* telling the listing and the page it was served on
PageData(idset, es, page) ==
    LET order == SortedSeq(idset) IN
    [k \in 1..Len(order) |-> [id |-> order[k], enrollment_state |-> EnrollmentStates[es],
                              page |-> page]]

CourseNextIgnored(more) == FALSE
\* whether the Link header of the response holds a rel="next" url to follow
CourseNextFollowed(more) == more

\* one turn of `while endpoint`: the page is requested; its unseen courses are
\* kept; the next link is followed, or the next enrollment state is begun, or
\* the courses are returned; a failing request raises out of the function
CourseFetchPage ==
    /\ crs_pc = "fetch"
    /\ \E ok \in BOOLEAN, idset \in SUBSET CourseIds, more \in BOOLEAN :
        IF ~ok
        THEN /\ crs_pc' = "raised"
             /\ UNCHANGED <<crs_es, crs_page, crs_seen, crs_courses, crs_served>>
        ELSE /\ (more => ExtraPagesServed < MaxExtraPages)
             /\ LET data == PageData(idset, crs_es, crs_page)
                    acc == AddUnseen([seen |-> crs_seen, courses |-> crs_courses], data)
                IN  /\ crs_seen' = acc.seen
                    /\ crs_courses' = acc.courses
             /\ crs_served' = Append(crs_served,
                    [es |-> crs_es, page |-> crs_page, ids |-> idset, more |-> more])
             /\ IF CourseNextFollowed(more)
                THEN /\ crs_page' = crs_page + 1
                     /\ UNCHANGED <<crs_es, crs_pc>>
                ELSE IF crs_es < Len(EnrollmentStates)
                THEN /\ crs_es' = crs_es + 1
                     /\ crs_page' = 1
                     /\ UNCHANGED crs_pc
                ELSE /\ crs_pc' = "returned"
                     /\ UNCHANGED <<crs_es, crs_page>>

(***************************************************************************)
(* get_all_assignments                                                     *)
(***************************************************************************)
\* SKIP_EXACT_TITLES
SkipExactTitles == {"end of unit feedback", "quarterly feedback"}
\* assignment names of the model
AssignmentNames ==
    {"End of Unit Feedback", " End of Unit Feedback ", "quarterly feedback", "hw1", NoneV}
\* str.strip() on the names of the model
Strip(n) == IF n = " End of Unit Feedback " THEN "End of Unit Feedback" ELSE n
\* str.lower() on the names of the model
Lower(n) ==
    CASE n = "End of Unit Feedback" -> "end of unit feedback"
      [] n = " End of Unit Feedback " -> " end of unit feedback "
      [] OTHER -> n
\* (a.get("name") or "").strip().lower()
NameNorm(a) == Lower(Strip(IF a.name = NoneV THEN "" ELSE a.name))
\* the assignments a page may hold
Assignments == [published : BOOLEAN, name : AssignmentNames]
PagesUpTo(n) == UNION {[1..k -> Assignments] : k \in 0..n}

RECURSIVE ScanPageCountAll(_, _)
ScanPageCountAll(acc, data) ==
    IF data = <<>> THEN acc
    ELSE LET a == Head(data) IN
         IF ~a.published THEN ScanPageCountAll(acc, Tail(data))
         ELSE IF NameNorm(a) \in SkipExactTitles
         THEN ScanPageCountAll([acc EXCEPT !.skipped = @ + 1, !.processed = @ + 1],
                               Tail(data))
         ELSE ScanPageCountAll([acc EXCEPT !.out = Append(@, a), !.processed = @ + 1],
                               Tail(data))

RECURSIVE ScanPage(_, _)
\* for a in data: the unpublished are passed over, the skip-listed counted
\* as skipped, the others appended to out and counted as processed
ScanPage(acc, data) ==
    IF data = <<>> THEN acc
    ELSE LET a == Head(data) IN
         IF ~a.published THEN ScanPage(acc, Tail(data))
         ELSE IF NameNorm(a) \in SkipExactTitles
         THEN ScanPage([acc EXCEPT !.skipped = @ + 1], Tail(data))
         ELSE ScanPage([acc EXCEPT !.out = Append(@, a), !.processed = @ + 1], Tail(data))

VARIABLES
    asg_pc,       \* "idle" | "fetch" | "returned" | "raised"
    asg_out,      \* out
    stats,        \* stats: processed and skipped, kept over the calls
    asg_seen,     \* the assignments the pages of this call held, in order
    asg_all,      \* the assignments the pages of all calls held, in order
    asg_requests  \* requests made over all calls

asgVars == <<asg_pc, asg_out, stats, asg_seen, asg_all, asg_requests>>

AsgIdle ==
    /\ asg_pc = "idle"
    /\ asg_out = <<>>
    /\ stats = [processed |-> 0, skipped |-> 0]
    /\ asg_seen = <<>>
    /\ asg_all = <<>>
    /\ asg_requests = 0

\* get_all_assignments(course_id, stats) is called (again)
AssignmentsCall ==
    /\ asg_pc \in {"idle", "returned", "raised"}
    /\ asg_requests < MaxAssignmentRequests
    /\ asg_pc' = "fetch"
    /\ asg_out' = <<>>
    /\ asg_seen' = <<>>
    /\ UNCHANGED <<stats, asg_all, asg_requests>>

\* one turn of `while endpoint`: the page is requested and scanned; the next
\* link is followed or out is returned; a failing request raises
AssignmentsFetchPage ==
    /\ asg_pc = "fetch"
    /\ \E ok \in BOOLEAN, data \in PagesUpTo(MaxAssignmentsSeen - Len(asg_all)),
          more \in BOOLEAN :
        /\ asg_requests' = asg_requests + 1
        /\ IF ~ok
           THEN /\ asg_pc' = "raised"
                /\ UNCHANGED <<asg_out, stats, asg_seen, asg_all>>
           ELSE /\ (more => asg_requests + 1 < MaxAssignmentRequests)
                /\ LET acc == ScanPage([out |-> asg_out, processed |-> stats.processed,
                                        skipped |-> stats.skipped], data)
                   IN  /\ asg_out' = acc.out
                       /\ stats' = [processed |-> acc.processed, skipped |-> acc.skipped]
                /\ asg_seen' = asg_seen \o data
                /\ asg_all' = asg_all \o data
                /\ asg_pc' = IF more THEN "fetch" ELSE "returned"

crawlVars == <<subVars, crsVars, asgVars>>
CrawlIdle == SubIdle /\ CrsIdle /\ AsgIdle

(***************************************************************************)
(* Specifications                                                          *)
(***************************************************************************)
vars == <<mainVars, wipeVars, remoteVars, retryVars, selVars, crawlVars>>

\* sizes of the detailed and the summary table when a run of main() starts
InitialSizes == {<<0, 1>>, <<MaxRecords, 0>>}

Init ==
    /\ pc = "start"
    /\ MainIdle
    /\ WipeIdle
    /\ maxWorkers \in {Max(1, w) : w \in WorkerSettings}
    /\ \E k \in InitialSizes :
        live = [t \in Tables |-> IF t = "detailed" THEN 1..k[1] ELSE 1..k[2]]
    /\ ghost = [t \in Tables |-> {}]
    /\ ghostAge = [t \in Tables |-> StalePasses]
    /\ RetryInit
    /\ SelIdle
    /\ CrawlIdle

\* a step of wipe_table_fast while main() waits for it
InWipe(step) ==
    /\ pc \in {"wipe_detailed", "wipe_summary"}
    /\ step
    /\ UNCHANGED <<mainVars, retryVars, selVars, crawlVars>>

Next ==
    \/ (Preflight /\ UNCHANGED <<retryVars, selVars, crawlVars>>)
    \/ (ParseIds /\ UNCHANGED <<retryVars, selVars, crawlVars>>)
    \/ (WipeDecide /\ UNCHANGED <<retryVars, selVars, crawlVars>>)
    \/ InWipe(WipeCollect)
    \/ InWipe(WipeSubmit)
    \/ InWipe(DeleteStart)
    \/ InWipe(DeleteFinish)
    \/ InWipe(WipeJoin)
    \/ (WipeDetailedDone /\ UNCHANGED <<retryVars, selVars, crawlVars>>)
    \/ (WipeSummaryDone /\ UNCHANGED <<retryVars, selVars, crawlVars>>)
    \/ (CrawlStudent /\ UNCHANGED <<retryVars, selVars, crawlVars>>)
    \/ (BuildRows /\ UNCHANGED <<retryVars, selVars, crawlVars>>)
    \/ (FetchSchema /\ UNCHANGED <<retryVars, selVars, crawlVars>>)
    \/ (ValidateSelects /\ UNCHANGED <<retryVars, selVars, crawlVars>>)
    \/ (FilterRows /\ UNCHANGED <<retryVars, selVars, crawlVars>>)
    \/ (InsertBatch /\ UNCHANGED <<retryVars, selVars, crawlVars>>)
    \/ (InsertReturn /\ UNCHANGED <<retryVars, selVars, crawlVars>>)

\* a run of main()
Spec == Init /\ [][Next]_vars

\* the driver of the wipe: wipe_table_fast is called on the detailed table,
\* and again once it has returned
WipeCall ==
    /\ wpc \in {"idle", "returned"}
    /\ wipeCalls < MaxWipeCalls
    /\ WipeEnter("detailed")
    /\ UNCHANGED remoteVars

WipeInit ==
    /\ pc = "idle"
    /\ MainIdle
    /\ WipeIdle
    /\ maxWorkers \in {Max(1, w) : w \in WorkerSettings}
    /\ \E k \in 0..MaxRecords :
        live = [t \in Tables |-> IF t = "detailed" THEN 1..k ELSE {}]
    /\ ghost = [t \in Tables |-> {}]
    /\ ghostAge = [t \in Tables |-> StalePasses]
    /\ RetryInit
    /\ SelIdle
    /\ CrawlIdle

WipeNext ==
    \/ (WipeCall /\ UNCHANGED <<mainVars, retryVars, selVars, crawlVars>>)
    \/ (WipeCollect /\ UNCHANGED <<mainVars, retryVars, selVars, crawlVars>>)
    \/ (WipeSubmit /\ UNCHANGED <<mainVars, retryVars, selVars, crawlVars>>)
    \/ (DeleteStart /\ UNCHANGED <<mainVars, retryVars, selVars, crawlVars>>)
    \/ (DeleteFinish /\ UNCHANGED <<mainVars, retryVars, selVars, crawlVars>>)
    \/ (WipeJoin /\ UNCHANGED <<mainVars, retryVars, selVars, crawlVars>>)

\* wipe_table_fast on one table
SpecWipe == WipeInit /\ [][WipeNext]_vars

RetryOnlyInit ==
    /\ pc = "idle"
    /\ MainIdle
    /\ WipeIdle
    /\ maxWorkers = 1
    /\ live = [t \in Tables |-> {}]
    /\ ghost = [t \in Tables |-> {}]
    /\ ghostAge = [t \in Tables |-> StalePasses]
    /\ RetryInit
    /\ SelIdle
    /\ CrawlIdle

\* one call of _airtable_retry
RetryNext ==
    \/ (RetryAttemptOk /\ UNCHANGED <<mainVars, wipeVars, remoteVars, selVars, crawlVars>>)
    \/ (RetryAttemptFail /\ UNCHANGED <<mainVars, wipeVars, remoteVars, selVars, crawlVars>>)
    \/ (RetryExhaust /\ UNCHANGED <<mainVars, wipeVars, remoteVars, selVars, crawlVars>>)

SpecRetry == RetryOnlyInit /\ [][RetryNext]_vars

SelOnlyInit ==
    /\ pc = "idle"
    /\ MainIdle
    /\ WipeIdle
    /\ maxWorkers = 1
    /\ live = [t \in Tables |-> {}]
    /\ ghost = [t \in Tables |-> {}]
    /\ ghostAge = [t \in Tables |-> StalePasses]
    /\ RetryInit
    /\ SelInit
    /\ CrawlIdle

\* one call of _validate_or_coerce_selects
SelNext == SelValidate /\ UNCHANGED <<mainVars, wipeVars, remoteVars, retryVars, crawlVars>>

SpecSelect == SelOnlyInit /\ [][SelNext]_vars

\* what get_submission gives for an assignment: the status and the grade
SubmissionResults ==
    {[submission_status |-> "graded", grade |-> "A"],
     [submission_status |-> "excused", grade |-> "Excused"],
     [submission_status |-> "unsubmitted", grade |-> "N/A"]}
\* the assignment lists of one course, of up to MaxFacts assignments
FactLists ==
    UNION {[1..n -> {Fact("hw", NoneV, r.submission_status, r.grade) : r \in SubmissionResults}] :
           n \in 0..MaxFacts}

\* main() at the end of the loop over the students: one student with one
\* course was crawled
BuildInit ==
    /\ pc = "crawl"
    /\ \E facts \in FactLists :
        LET courses == <<Course("T1", "Math", facts)>> IN
        /\ crawled = <<[ok |-> TRUE, name |-> "Ann", courses |-> courses]>>
        /\ students_data = DictPut(<<>>, "Ann", AllData(courses, 1), 1)
    /\ user_ids = <<1>>
    /\ stuIdx = 2
    /\ detailed_rows = <<>>
    /\ summary_rows = <<>>
    /\ dOwner = <<>>
    /\ sOwner = <<>>
    /\ detailed_def = NoDef
    /\ summary_def = NoDef
    /\ allowFallback = FALSE
    /\ skipWipe = TRUE
    /\ widx = 1
    /\ created = [t \in Tables |-> <<>>]
    /\ stages = <<"crawl">>
    /\ wiped = {}
    /\ validated = FALSE
    /\ WipeIdle
    /\ maxWorkers = 1
    /\ live = [t \in Tables |-> {}]
    /\ ghost = [t \in Tables |-> {}]
    /\ ghostAge = [t \in Tables |-> StalePasses]
    /\ RetryInit
    /\ SelIdle
    /\ CrawlIdle

BuildNext == BuildRows /\ UNCHANGED <<retryVars, selVars, crawlVars>>

\* the row builder of main() on the data of one course
SpecBuild == BuildInit /\ [][BuildNext]_vars

\* the other programs at rest while a function of the crawler runs on its own
CrawlOnlyInit ==
    /\ pc = "idle"
    /\ MainIdle
    /\ WipeIdle
    /\ maxWorkers = 1
    /\ live = [t \in Tables |-> {}]
    /\ ghost = [t \in Tables |-> {}]
    /\ ghostAge = [t \in Tables |-> StalePasses]
    /\ RetryInit
    /\ SelIdle

SubOnlyInit == CrawlOnlyInit /\ SubInit /\ CrsIdle /\ AsgIdle
SubNext ==
    SubmissionCall /\ UNCHANGED <<mainVars, wipeVars, remoteVars, retryVars, selVars,
                                  crsVars, asgVars>>
\* one call of get_submission
SpecSubmission == SubOnlyInit /\ [][SubNext]_vars

CrsOnlyInit == CrawlOnlyInit /\ SubIdle /\ CrsInit /\ AsgIdle
CrsNext ==
    CourseFetchPage /\ UNCHANGED <<mainVars, wipeVars, remoteVars, retryVars, selVars,
                                   subVars, asgVars>>
\* one call of get_all_active_courses_admin
SpecCourses == CrsOnlyInit /\ [][CrsNext]_vars

AsgOnlyInit == CrawlOnlyInit /\ SubIdle /\ CrsIdle /\ AsgIdle
AsgNext ==
    \/ (AssignmentsCall /\ UNCHANGED <<mainVars, wipeVars, remoteVars, retryVars, selVars,
                                       subVars, crsVars>>)
    \/ (AssignmentsFetchPage /\ UNCHANGED <<mainVars, wipeVars, remoteVars, retryVars,
                                            selVars, subVars, crsVars>>)
\* calls of get_all_assignments with the same stats
SpecAssignments == AsgOnlyInit /\ [][AsgNext]_vars

\* course and assignment names of the rows handed to the inserts on their own
InsertRowNames ==
    <<"c01", "c02", "c03", "c04", "c05", "c06", "c07", "c08", "c09", "c10", "c11",
      "c12", "c13", "c14", "c15", "c16", "c17", "c18", "c19", "c20", "c21", "c22",
      "c23", "c24">>
\* the courses of a student with n courses of m graded assignments each
InsertCourses(n, m) ==
    [i \in 1..n |->
        Course("T1", InsertRowNames[i],
               [j \in 1..m |-> Fact(IF j = 1 THEN "hw1" ELSE "hw2", NoneV, "graded", "A")])]

\* main() at the call of airtable_insert_detailed: one student was crawled,
\* the rows are built, the schema defines neither table
InsertInit ==
    /\ pc = "write_detailed"
    /\ \E n \in 0..MaxInsertRows, m \in 0..2 :
        LET courses == InsertCourses(n, m)
            sd == DictPut(<<>>, "Ann", AllData(courses, 1), 1)
        IN  /\ crawled = <<[ok |-> TRUE, name |-> "Ann", courses |-> courses]>>
            /\ students_data = sd
            /\ detailed_rows = BuildDetailed(sd)
            /\ summary_rows = BuildSummary(sd)
            /\ dOwner = BuildDetailedOwners(sd)
            /\ sOwner = BuildSummaryOwners(sd)
    /\ user_ids = <<1>>
    /\ stuIdx = 2
    /\ detailed_def = NoDef
    /\ summary_def = NoDef
    /\ allowFallback = FALSE
    /\ skipWipe = TRUE
    /\ widx = 1
    /\ created = [t \in Tables |-> <<>>]
    /\ stages = <<"crawl", "build", "schema", "validate", "filter">>
    /\ wiped = {}
    /\ validated = TRUE
    /\ WipeIdle
    /\ maxWorkers = 1
    /\ \E k \in 0..1 : live = [t \in Tables |-> 1..k]
    /\ ghost = [t \in Tables |-> {}]
    /\ ghostAge = [t \in Tables |-> StalePasses]
    /\ RetryInit
    /\ SelIdle
    /\ CrawlIdle

InsertNext ==
    \/ (InsertBatch /\ UNCHANGED <<retryVars, selVars, crawlVars>>)
    \/ (InsertReturn /\ UNCHANGED <<retryVars, selVars, crawlVars>>)

\* airtable_insert_detailed, then airtable_insert_summary, as main() calls them
SpecInsert == InsertInit /\ [][InsertNext]_vars

\* the two users of _chunks on their own: a call of wipe_table_fast on a
\* table of any size, or the two inserts on rows already built
BatchInit == WipeInit \/ InsertInit

BatchNext ==
    \/ (pc = "idle" /\ WipeCall /\ UNCHANGED <<mainVars, retryVars, selVars, crawlVars>>)
    \/ (WipeCollect /\ UNCHANGED <<mainVars, retryVars, selVars, crawlVars>>)
    \/ (WipeSubmit /\ UNCHANGED <<mainVars, retryVars, selVars, crawlVars>>)
    \/ (DeleteStart /\ UNCHANGED <<mainVars, retryVars, selVars, crawlVars>>)
    \/ (DeleteFinish /\ UNCHANGED <<mainVars, retryVars, selVars, crawlVars>>)
    \/ (WipeJoin /\ UNCHANGED <<mainVars, retryVars, selVars, crawlVars>>)
    \/ (InsertBatch /\ UNCHANGED <<retryVars, selVars, crawlVars>>)
    \/ (InsertReturn /\ UNCHANGED <<retryVars, selVars, crawlVars>>)

SpecBatch == BatchInit /\ [][BatchNext]_vars

(***************************************************************************)
(* Properties of _airtable_retry (under SpecRetry)                         *)
(***************************************************************************)
IsOkCall(c) == c.status = 200
FailedRetryably(c) == c.status \in {429, 500, 502, 503, 504}

\* C7: _airtable_retry calls fn at most 4 times; attempt i is preceded by a
\* sleep of 0, 1, 2, 4 seconds; an attempt after the first is made only after
\* a failure with status 429, 500, 502, 503 or 504; the first success is
\* returned and no attempt follows it.
C7_RetrySchedule ==
    /\ Len(rcalls) <= 4
    /\ Len(rsleeps) = Len(rcalls)
    /\ \A i \in 1..Len(rsleeps) : rsleeps[i] = <<0, 1, 2, 4>>[i]
    /\ \A i \in 2..Len(rcalls) : FailedRetryably(rcalls[i - 1])
    /\ \A i \in 1..Len(rcalls) :
          IsOkCall(rcalls[i]) =>
            /\ i = Len(rcalls)
            /\ rpc = "returned"
            /\ rresult = i
            /\ rraised = NoExc

\* reached: the 4th attempt succeeds after three retryable failures
C7_Witness ==
    /\ rpc = "returned"
    /\ Len(rcalls) = 4
    /\ rresult = 4
    /\ rsleeps = <<0, 1, 2, 4>>

\* C8: an attempt that fails with a status outside {429, 500, 502, 503, 504},
\* or with an exception that carries no status, ends the call at once: that
\* exception is raised, no sleep and no attempt follows, whatever the attempt.
C8_NonRetryableImmediate ==
    \A i \in 1..Len(rcalls) :
        (~IsOkCall(rcalls[i]) /\ ~FailedRetryably(rcalls[i])) =>
            /\ i = Len(rcalls)
            /\ Len(rsleeps) = i
            /\ rpc = "raised"
            /\ rraised = rcalls[i]

\* reached: the 3rd attempt fails with an exception that has no status
C8_Witness ==
    /\ rpc = "raised"
    /\ Len(rcalls) = 3
    /\ rcalls[3].status = NoStatus
    /\ rraised = rcalls[3]

\* C9: when all 4 attempts failed with a retryable status the call raises the
\* exception of the 4th attempt; it never returns without a result of fn.
C9_Exhaustion ==
    /\ (rpc = "returned") => (rresult \in 1..Len(rcalls) /\ IsOkCall(rcalls[rresult]))
    /\ (/\ rpc # "loop"
        /\ Len(rcalls) = 4
        /\ \A i \in 1..4 : FailedRetryably(rcalls[i]))
       => (rpc = "raised" /\ rraised = rcalls[4] /\ rraised.attempt = 4)

\* reached: four retryable failures, the last one raised
C9_Witness ==
    /\ rpc = "raised"
    /\ Len(rcalls) = 4
    /\ \A i \in 1..4 : FailedRetryably(rcalls[i])
    /\ rraised.attempt = 4
    /\ rcalls[1].status # rcalls[4].status

C2_StaleWitness ==
    /\ wipeCalls = 2
    /\ wpc = "returned"
    /\ passes = 1
    /\ ~deleteFailed
    /\ live[wtable] = {}

(***************************************************************************)
(* Properties of a run of main() (under Spec)                              *)
(***************************************************************************)
InWritePhase == pc \in {"write_detailed", "write_summary", "returned"}
SomeCreated == \E t \in Tables : created[t] # <<>>
SomeDeleteIssued == \E t \in Tables : deleteCalls[t] > 0

\* C3 as stated: a run that reaches the write phase has wiped both tables
\* before its first batch_create; no run writes into a table it did not wipe.
C3_AlwaysWipedBeforeWrite ==
    (InWritePhase \/ SomeCreated) => (wiped = Tables)

\* C3 as amended: a run that is not told to skip the wipe (PARTNER_NAME not
\* ending in _P2, SKIP_WIPE not 1) has entered and left wipe_table_fast for
\* both tables before its first batch_create on either table; a run told to
\* skip the wipe reaches the write phase with neither table wiped.
C3_WipedBeforeWriteUnlessSkipped ==
    /\ (InWritePhase \/ SomeCreated) =>
          /\ wiped = (IF skipWipe THEN {} ELSE Tables)
          /\ wpc = "idle"
    /\ (pc \in {"wipe", "wipe_detailed", "wipe_summary"}) => ~SomeCreated

\* reached: the wipe ran and deleted, then the detailed rows were created
C3_Witness ==
    /\ pc = "write_summary"
    /\ ~skipWipe
    /\ wiped = Tables
    /\ deleteCalls["detailed"] > 0
    /\ created["detailed"] # <<>>

StageOrder == <<"wipe", "crawl", "build", "schema", "validate", "filter", "write">>
IsPrefix(a, b) == Len(a) <= Len(b) /\ a = SubSeq(b, 1, Len(a))

HoldsUnknownOption(rows, table_def) ==
    /\ table_def # NoDef
    /\ \E i \in 1..Len(rows), f \in table_def :
        /\ f.type = "singleSelect"
        /\ f.name \in DOMAIN rows[i]
        /\ rows[i][f.name] \notin {NoneV, ""}
        /\ \A j \in 1..Len(f.choices) : f.choices[j] # rows[i][f.name]

ValidationRan == "validate" \in SeqToSet(stages)

\* C5: with coercion disabled, when a built row of the detailed or of the
\* summary table holds a non-empty value in a single-select field that is not
\* among the field's options, the run ends by SystemExit, no batch_create is
\* issued on either table and the validator leaves the rows as built.
C5_SchemaViolationFatal ==
    (/\ ValidationRan
     /\ ~allowFallback
     /\ \/ HoldsUnknownOption(BuildDetailed(students_data), detailed_def)
        \/ HoldsUnknownOption(BuildSummary(students_data), summary_def))
    => /\ pc = "exit"
       /\ ~SomeCreated
       /\ detailed_rows = BuildDetailed(students_data)
       /\ summary_rows = BuildSummary(students_data)

\* reached: only the summary table holds an unknown option, in a row that is
\* not the first, and the run has ended by SystemExit
C5_Witness ==
    /\ pc = "exit"
    /\ ~allowFallback
    /\ ~HoldsUnknownOption(detailed_rows, detailed_def)
    /\ HoldsUnknownOption(summary_rows, summary_def)
    /\ ~HoldsUnknownOption(SubSeq(summary_rows, 1, 1), summary_def)
    /\ Len(detailed_rows) > 0

\* the rows as the row builder emitted them, and the students they come from
BuiltDetailed == BuildDetailed(students_data)
BuiltDetailedOwners == BuildDetailedOwners(students_data)
BuiltSummary == BuildSummary(students_data)
BuiltSummaryOwners == BuildSummaryOwners(students_data)
RowsBuilt == "build" \in SeqToSet(stages)

\* student t (crawled with success) has its rows among the rows built: the
\* detail row of every assignment and the summary row of every course key of
\* the all_data its crawl made
Contributes(t) ==
    LET name == crawled[t].name
        data == AllData(crawled[t].courses, t)
    IN  /\ \A c \in 1..Len(data) : \A a \in 1..Len(data[c].val) :
              \E i \in 1..Len(BuiltDetailed) :
                  /\ BuiltDetailedOwners[i] = t
                  /\ BuiltDetailed[i] = DetailRow(name, data[c].key, data[c].val[a])
        /\ \A c \in 1..Len(data) :
              \E i \in 1..Len(BuiltSummary) :
                  /\ BuiltSummaryOwners[i] = t
                  /\ BuiltSummary[i] = SummaryRow(name, data[c].key, data[c].val)

\* no row comes from a student whose crawl raised
FailedStudentsOwnNoRows ==
    RowsBuilt =>
        \A s \in 1..Len(crawled) :
            ~crawled[s].ok =>
                /\ \A i \in 1..Len(dOwner) : dOwner[i] # s
                /\ \A i \in 1..Len(sOwner) : sOwner[i] # s

\* once the rows are built every student id has been crawled, whatever failed
EveryStudentCrawled == RowsBuilt => (Len(crawled) = Len(user_ids))

\* C10: when the crawl of student s raises, no detail or summary row comes
\* from s, every student after s is still crawled, and each of those whose
\* crawl succeeds has its rows among the rows built.
C10_FailureIsolation ==
    RowsBuilt =>
        \A s \in 1..Len(user_ids) :
            ~crawled[s].ok =>
                /\ \A i \in 1..Len(dOwner) : dOwner[i] # s
                /\ \A i \in 1..Len(sOwner) : sOwner[i] # s
                /\ \A t \in (s + 1)..Len(user_ids) :
                      /\ t <= Len(crawled)
                      /\ crawled[t].ok => Contributes(t)

(***************************************************************************)
(* Properties of _validate_or_coerce_selects (under SpecSelect)            *)
(***************************************************************************)
SelectFields(table_def) == {f \in table_def : f.type = "singleSelect"}

\* every value a row holds in a select field that has options is an option
AllInOptions(rows, table_def) ==
    \A i \in 1..Len(rows) : \A f \in SelectFields(table_def) :
        (Len(f.choices) > 0 /\ f.name \in DOMAIN rows[i]) =>
            \E j \in 1..Len(f.choices) : f.choices[j] = rows[i][f.name]

\* C6 as stated: with coercion enabled, after the call every value of a
\* single-select field that has options is one of the options, for every
\* input, also when the only values outside the options are "" or None.
C6_CoercionTotal ==
    (sel_pc = "returned" /\ sel_allow) => AllInOptions(sel_out, sel_def)

\* the value coercion gives to value v of field f
Coerced(f, v) ==
    IF f.type # "singleSelect" \/ Len(f.choices) = 0 THEN v
    ELSE IF \E j \in 1..Len(f.choices) : f.choices[j] = v THEN v
    ELSE IF \E j \in 1..Len(f.choices) : f.choices[j] = "Other" THEN "Other"
    ELSE f.choices[1]

\* C6 as amended: with coercion enabled, when some row holds a non-empty
\* value outside the options of its single-select field, after the call every
\* value of a select field that has options is one of the options (values
\* outside them, "" and None included, replaced by "Other" if that is an
\* option, else by the first option; fields without options and other fields
\* untouched); when no row holds such a non-empty value the rows are left as
\* they were, so "" and None stay in select fields.
C6_CoercionWhenUnknown ==
    (sel_pc = "returned" /\ sel_allow) =>
        IF HoldsUnknownOption(sel_rows, sel_def)
        THEN /\ AllInOptions(sel_out, sel_def)
             /\ Len(sel_out) = Len(sel_rows)
             /\ \A i \in 1..Len(sel_rows) :
                   /\ DOMAIN sel_out[i] = DOMAIN sel_rows[i]
                   /\ \A f \in sel_def : f.name \in DOMAIN sel_rows[i] =>
                         sel_out[i][f.name] = Coerced(f, sel_rows[i][f.name])
        ELSE sel_out = sel_rows

\* reached: coercion is enabled, the only values outside the options are ""
\* and None, and they are still there after the call
C6_Witness ==
    /\ sel_pc = "returned"
    /\ sel_allow
    /\ ~HoldsUnknownOption(sel_rows, sel_def)
    /\ Len(sel_rows) = 2
    /\ "Status" \in DOMAIN sel_rows[1] /\ sel_rows[1]["Status"] = ""
    /\ "Status" \in DOMAIN sel_rows[2] /\ sel_rows[2]["Status"] = NoneV
    /\ \E f \in SelectFields(sel_def) : f.name = "Status" /\ Len(f.choices) > 0
    /\ sel_out = sel_rows

\* reached: an unknown value made coercion run, and an empty value of another
\* row was replaced by the fallback as well
C6_CoercedWitness ==
    /\ sel_pc = "returned"
    /\ sel_allow
    /\ Len(sel_rows) = 2
    /\ "Status" \in DOMAIN sel_rows[1] /\ sel_rows[1]["Status"] = "C"
    /\ "Status" \in DOMAIN sel_rows[2] /\ sel_rows[2]["Status"] = ""
    /\ sel_out[1]["Status"] = "Other"
    /\ sel_out[2]["Status"] = "Other"

(***************************************************************************)
(* Properties of the inserts (under SpecInsert)                            *)
(***************************************************************************)
BatchesOf(t) ==
    Chunks(IF t = "detailed" THEN detailed_rows ELSE summary_rows, WriteBatchSize)
InsertFails == pc \in {"write_detailed", "write_summary"} /\ pc' = "error"

\* C11: when a batch_create of a table raises (non-retryably or with the
\* retries exhausted) the exception leaves the insert and ends the run: the
\* failing batch and every later batch of the table are not created, the
\* summary insert is not started when the detailed insert failed, the batches
\* created before stay (nothing is deleted); an insert returns normally only
\* with every batch of its table created.
C11_BatchFailureAborts ==
    /\ [][InsertFails =>
            /\ created' = created
            /\ Len(created[WriteTable]) = widx - 1
            /\ Len(created[WriteTable]) < Len(BatchesOf(WriteTable))
            /\ (pc = "write_detailed" => created["summary"] = <<>>)
            /\ deleteCalls' = deleteCalls
            /\ live' = live]_vars
    /\ [][pc = "error" => (pc' = "error" /\ created' = created /\ live' = live)]_vars
    /\ [](pc \in {"write_summary", "returned"} => created["detailed"] = BatchesOf("detailed"))
    /\ [](pc = "returned" => created["summary"] = BatchesOf("summary"))
    /\ [](\A t \in Tables : Len(created[t]) <= Len(BatchesOf(t))
                            /\ created[t] = SubSeq(BatchesOf(t), 1, Len(created[t])))

\* reached: the second batch of the detailed table failed; the first batch
\* stays created, the third was never sent, the summary insert never started
C11_Witness ==
    /\ pc = "error"
    /\ Len(BatchesOf("detailed")) = 3
    /\ Len(created["detailed"]) = 1
    /\ BatchesOf("summary") # <<>>
    /\ created["summary"] = <<>>

\* reached: a batch of the summary table failed after the detailed table was
\* written completely; the detailed rows stay
C11_SummaryWitness ==
    /\ pc = "error"
    /\ created["detailed"] = BatchesOf("detailed")
    /\ Len(created["detailed"]) = 2
    /\ Len(created["summary"]) = 1
    /\ Len(BatchesOf("summary")) = 2

(***************************************************************************)
(* More properties of wipe_table_fast (under SpecWipe)                     *)
(***************************************************************************)
\* the listing step of wipe_table_fast got no record id
ListedNothing == wpc = "collect" /\ lastListing' = {}
\* the listing step of the second of two wipes in a row of a table that holds
\* no record (the first wipe emptied it, or it was empty before)
SecondListingOfEmptied == wpc = "collect" /\ wipeCalls = 2 /\ live[wtable] = {}
NoDeleteWork ==
    /\ wpc' = "returned"
    /\ deleteCalls' = deleteCalls
    /\ live' = live
    /\ chunks' = <<>>
    /\ futures' = <<>>
    /\ submitted' = 0
    /\ passes' = 0

\* C12 as stated: when the listing returns no record id wipe_table_fast
\* returns with no delete call and without starting the pool; the second of
\* two wipes in a row of a table the first has emptied issues no delete.
C12_NoOpOnEmpty ==
    /\ [][ListedNothing => NoDeleteWork]_vars
    /\ [][SecondListingOfEmptied => NoDeleteWork]_vars

\* C12 as amended: when the listing returns no record id wipe_table_fast
\* returns with no delete call and without starting the pool; the second of
\* two wipes in a row of an emptied table does so when its listing returns no
\* id, but when the remote list is stale and still returns ids the first wipe
\* deleted, the second wipe runs a delete pass on those ids.
C12_NoOpOnEmptyListing ==
    /\ [][ListedNothing => NoDeleteWork]_vars
    /\ [][SecondListingOfEmptied =>
            IF lastListing' = {} THEN NoDeleteWork
            ELSE /\ lastListing' \subseteq ghost[wtable]
                 /\ wpc' = "delete"
                 /\ passes' = 1]_vars
    /\ [](wpc = "returned" /\ lastListing = {} =>
            passes = 0 /\ futures = <<>> /\ submitted = 0)

\* reached: the first wipe deleted every record, the second listed nothing
\* and returned at once
C12_Witness ==
    /\ wipeCalls = 2
    /\ wpc = "returned"
    /\ lastListing = {}
    /\ listOk
    /\ passes = 0
    /\ live[wtable] = {}
    /\ deleteCalls[wtable] = 2

(***************************************************************************)
(* The wipe inside a run of main() (under Spec)                            *)
(***************************************************************************)
InWipeCall == pc \in {"wipe_detailed", "wipe_summary"}
\* the ids the wipe listed that the table still holds
Stragglers == lastListing \cap live[wtable]
FailedChunkIds ==
    UNION {SeqToSet(chunks[i]) : i \in {j \in 1..Len(futures) : futures[j] = "failed"}}

AllFuturesDone == \A i \in 1..Len(futures) : futures[i] \in {"ok", "failed"}

\* C20: in the delete phase every batch of the collected ids is submitted to
\* the pool and awaited, whether or not another batch raised; the exception
\* of a delete batch does not end the phase at the step it is raised and is
\* never propagated: wipe_table_fast only ever returns normally.
C20_FailedBatchDoesNotAbort ==
    /\ [](wpc \in {"idle", "collect", "delete", "returned"})
    /\ [](wpc = "returned" /\ passes = 1 =>
            /\ chunks = Chunks(ids, DeleteBatchSize)
            /\ submitted = Len(chunks)
            /\ Len(futures) = Len(chunks)
            /\ AllFuturesDone)
    /\ [][(wpc = "delete" /\ wpc' # "delete") =>
            (wpc' = "returned" /\ submitted = Len(chunks) /\ AllFuturesDone)]_vars
    /\ [][(~deleteFailed /\ deleteFailed') => wpc' = "delete"]_vars

\* reached: with one worker the first batch failed, and the second batch was
\* still run and deleted its ids before the wipe returned
C20_Witness ==
    /\ wpc = "returned"
    /\ maxWorkers = 1
    /\ futures = <<"failed", "ok">>
    /\ deleteFailed
    /\ Cardinality(live[wtable]) = DeleteBatchSize

(***************************************************************************)
(* Properties of the row builder (under SpecBuild)                         *)
(***************************************************************************)
RECURSIVE CountDone(_)
\* the assignments of a list whose status is graded or excused, counted one by one
CountDone(facts) ==
    IF facts = <<>> THEN 0
    ELSE (IF Head(facts).submission_status = "graded" THEN 1
          ELSE IF Head(facts).submission_status = "excused" THEN 1 ELSE 0)
         + CountDone(Tail(facts))

\* the assignment list summary row i was built from
FactsOfSummaryRow(i) == crawled[1].courses[i].facts

\* C14: in every summary row Completed + Unsubmitted = Total Assignments,
\* Total is the length of the assignment list, Completed is the number of its
\* assignments that are graded or excused, 0 <= Completed <= Total, and the
\* fraction is Completed/Total when Total > 0 and 0.0 when Total = 0, so it
\* lies in [0, 1].
C14_SummaryArithmetic ==
    (pc = "schema") =>
        /\ Len(summary_rows) = 1
        /\ \A i \in 1..Len(summary_rows) :
            LET r == summary_rows[i]
                total == r["Total Assignments"]
                done == r["Completed"]
                frac == r["Percentage Completed"]
            IN  /\ total = Len(FactsOfSummaryRow(i))
                /\ done + r["Unsubmitted"] = total
                /\ done = CountDone(FactsOfSummaryRow(i))
                /\ 0 <= done /\ done <= total
                /\ frac[2] > 0
                /\ IF total > 0 THEN frac[1] * total = done * frac[2]
                   ELSE frac[1] = 0
                /\ 0 <= frac[1] /\ frac[1] <= frac[2]

\* reached: a summary row of 3 assignments, one graded, one unsubmitted, one excused
C14_Witness ==
    /\ pc = "schema"
    /\ Len(FactsOfSummaryRow(1)) = 3
    /\ FactsOfSummaryRow(1)[1].submission_status = "graded"
    /\ FactsOfSummaryRow(1)[2].submission_status = "unsubmitted"
    /\ FactsOfSummaryRow(1)[3].submission_status = "excused"
    /\ summary_rows[1]["Completed"] = 2
    /\ summary_rows[1]["Unsubmitted"] = 1

\* reached: the summary row of a course without assignments has fraction 0.0
C14_EmptyWitness ==
    /\ pc = "schema"
    /\ summary_rows[1]["Total Assignments"] = 0
    /\ summary_rows[1]["Percentage Completed"] = <<0, 1>>

(***************************************************************************)
(* Row counts of a run of main() (under Spec)                              *)
(***************************************************************************)
RECURSIVE SumLens(_)
\* the number of assignments of a list of courses
SumLens(courses) ==
    IF courses = <<>> THEN 0 ELSE Len(Head(courses).facts) + SumLens(Tail(courses))

RECURSIVE FactsCrawled(_)
\* the (student, course, assignment) facts of the students crawled with success
FactsCrawled(cr) ==
    IF cr = <<>> THEN 0
    ELSE (IF Head(cr).ok THEN SumLens(Head(cr).courses) ELSE 0) + FactsCrawled(Tail(cr))

\* the (student, term name, course name) triples of the students crawled with success
KeysCrawled ==
    UNION {{<<s, crawled[s].courses[c].term_name, crawled[s].courses[c].course_name>> :
               c \in 1..Len(crawled[s].courses)} :
           s \in {t \in 1..Len(crawled) : crawled[t].ok}}

\* C15: the row builder emits one detail row per assignment fact of every
\* student crawled with success and one summary row per (student, term name,
\* course name), also when two students have the same display name or two
\* courses of a student the same (term name, course name).
C15_RowCounts ==
    RowsBuilt =>
        /\ Len(BuiltDetailed) = FactsCrawled(crawled)
        /\ Len(BuiltSummary) = Cardinality(KeysCrawled)

(***************************************************************************)
(* Properties of get_submission (under SpecSubmission)                     *)
(***************************************************************************)
\* excused, workflow_state and grade as get_submission reads them off the
\* response: a missing excused reads as false, a missing workflow_state as
\* "unsubmitted", a missing grade as "N/A"
ReadExcused == sub_json.excused = "true"
ReadState == IF sub_json.workflow_state = Absent THEN "unsubmitted" ELSE sub_json.workflow_state
ReadGrade == IF sub_json.grade = Absent THEN "N/A" ELSE sub_json.grade
Returns(status, grade) ==
    /\ sub_pc = "returned"
    /\ sub_out.submission_status = status
    /\ sub_out.grade = grade

\* C16: of a response with status 200, excused true gives ("excused",
\* "Excused") whatever workflow_state and grade are; otherwise workflow_state
\* graded or submitted with a grade that is not null, not empty and not "-"
\* gives ("graded", grade); every other combination gives ("unsubmitted",
\* "N/A"); a 404 gives ("unsubmitted", "N/A") and is not raised; every other
\* HTTP error is raised.
C16_SubmissionMapping ==
    (sub_pc # "called") =>
        CASE sub_http = 200 /\ ReadExcused -> Returns("excused", "Excused")
          [] sub_http = 200 /\ ~ReadExcused /\ ReadState \in {"graded", "submitted"}
                /\ ReadGrade # NoneV /\ ReadGrade # "" /\ ReadGrade # "-" ->
                Returns("graded", ReadGrade)
          [] sub_http = 200 /\ ~ReadExcused
                /\ ~(ReadState \in {"graded", "submitted"}
                     /\ ReadGrade # NoneV /\ ReadGrade # "" /\ ReadGrade # "-") ->
                Returns("unsubmitted", "N/A")
          [] sub_http = 404 -> Returns("unsubmitted", "N/A")
          [] OTHER -> sub_pc = "raised"

\* reached: an excused submission that is also graded with a grade maps to excused
C16_Witness ==
    /\ sub_pc = "returned"
    /\ sub_http = 200
    /\ sub_json = [excused |-> "true", workflow_state |-> "graded", grade |-> "A"]
    /\ sub_out.submission_status = "excused"
    /\ sub_out.grade = "Excused"

\* reached: a 404 of the submission endpoint is returned as unsubmitted
C16_NotFoundWitness ==
    /\ sub_pc = "returned"
    /\ sub_http = 404
    /\ sub_out = Unsubmitted

(***************************************************************************)
(* Properties of get_all_active_courses_admin (under SpecCourses)          *)
(***************************************************************************)
\* the ids of the courses returned; the ids the pages served held
ReturnedIds == {crs_courses[k].id : k \in 1..Len(crs_courses)}
ServedIds == UNION {crs_served[i].ids : i \in 1..Len(crs_served)}
\* the first page served that held course id c
FirstServed(c) ==
    crs_served[CHOOSE i \in 1..Len(crs_served) :
                  /\ c \in crs_served[i].ids
                  /\ \A j \in 1..(i - 1) : c \notin crs_served[j].ids]

\* C17: when every listing stops giving a next link after finitely many
\* pages the function returns after requesting, for each of the 4 enrollment
\* states in order, page 1 and then exactly the pages a next link led to,
\* each once; it returns the union of the course records of those pages, each
\* course id once, as the record of its first occurrence.
C17_CourseEnumeration ==
    (crs_pc = "returned") =>
        /\ crs_served[1].es = 1 /\ crs_served[1].page = 1
        /\ crs_served[Len(crs_served)].es = Len(EnrollmentStates)
        /\ ~crs_served[Len(crs_served)].more
        /\ \A i \in 1..(Len(crs_served) - 1) :
              IF crs_served[i].more
              THEN /\ crs_served[i + 1].es = crs_served[i].es
                   /\ crs_served[i + 1].page = crs_served[i].page + 1
              ELSE /\ crs_served[i + 1].es = crs_served[i].es + 1
                   /\ crs_served[i + 1].page = 1
        /\ \A i, j \in 1..Len(crs_served) :
              (crs_served[i].es = crs_served[j].es /\ crs_served[i].page = crs_served[j].page)
                  => i = j
        /\ ReturnedIds = ServedIds
        /\ \A k, l \in 1..Len(crs_courses) : crs_courses[k].id = crs_courses[l].id => k = l
        /\ \A k \in 1..Len(crs_courses) :
              /\ crs_courses[k].enrollment_state =
                    EnrollmentStates[FirstServed(crs_courses[k].id).es]
              /\ crs_courses[k].page = FirstServed(crs_courses[k].id).page

\* reached: course 101 was served on page 2 of the active listing and again in
\* the completed listing, course 102 on two pages of the inactive listing; each
\* is returned once, from its first page
C17_Witness ==
    /\ crs_pc = "returned"
    /\ Len(crs_served) = 6
    /\ crs_served[1].ids = {} /\ crs_served[1].more
    /\ crs_served[2].ids = {101}
    /\ crs_served[4].ids = {101}
    /\ crs_served[5].ids = {102} /\ crs_served[5].more
    /\ crs_served[6].ids = {101, 102}
    /\ Len(crs_courses) = 2
    /\ crs_courses[1] = [id |-> 101, enrollment_state |-> "active", page |-> 2]
    /\ crs_courses[2] = [id |-> 102, enrollment_state |-> "inactive", page |-> 1]

(***************************************************************************)
(* Properties of get_all_assignments (under SpecAssignments)               *)
(***************************************************************************)
\* the name compared case-insensitively
LowerOnly(a) == Lower(IF a.name = NoneV THEN "" ELSE a.name)
\* the name compared case-insensitively after its surrounding whitespace is stripped
StripLower(a) == Lower(Strip(IF a.name = NoneV THEN "" ELSE a.name))
\* whether the name of a is on the skip-list under the comparison named by how
OnSkipList(a, how) ==
    (IF how = "lower" THEN LowerOnly(a) ELSE StripLower(a)) \in SkipExactTitles

RECURSIVE CountIn(_, _, _)
\* the published assignments of a list that are on the skip-list (skip = TRUE)
\* or are not on it (skip = FALSE)
CountIn(list, skip, how) ==
    IF list = <<>> THEN 0
    ELSE (IF Head(list).published /\ (OnSkipList(Head(list), how) = skip) THEN 1 ELSE 0)
         + CountIn(Tail(list), skip, how)

RECURSIVE Kept(_, _)
\* the published assignments of a list that are not on the skip-list, in order
Kept(list, how) ==
    IF list = <<>> THEN <<>>
    ELSE (IF Head(list).published /\ ~OnSkipList(Head(list), how)
          THEN <<Head(list)>> ELSE <<>>) \o Kept(Tail(list), how)

LookedUp(t) == IF t = "detailed" THEN detailed_def ELSE summary_def
\* the definitions the target table may really have: the one the schema
\* lookup gave, any of them when the lookup gave none
TargetDefs(t) ==
    IF LookedUp(t) # NoDef THEN {LookedUp(t)}
    ELSE (IF t = "detailed" THEN DetailedDefs ELSE SummaryDefs) \ {NoDef}
\* the rows batch_create has been given for table t
SentRows(t) ==
    UNION {SeqToSet(created[t][b]) : b \in 1..Len(created[t])}
BuiltRows(t) == IF t = "detailed" THEN SeqToSet(BuiltDetailed) ELSE SeqToSet(BuiltSummary)
\* the validation is handed the rows as they were built, and no filter stage
\* comes before a validation stage
ValidationSeesUnfilteredRows ==
    /\ (pc = "validate") =>
            (detailed_rows = BuiltDetailed /\ summary_rows = BuiltSummary)
    /\ \A i, j \in 1..Len(stages) :
            (stages[i] = "validate" /\ stages[j] = "filter") => i < j
    /\ ("filter" \in SeqToSet(stages)) => ("validate" \in SeqToSet(stages))

\* C19 as stated: every row given to batch_create has only keys that are
\* writable fields of the target table, and the select validation runs on the
\* unfiltered rows before the filter.
C19_WritableFilterOrdered ==
    /\ \A t \in {"detailed", "summary"} : \A r \in SentRows(t) :
            \A d \in TargetDefs(t) : DOMAIN r \subseteq WritableFieldnames(d)
    /\ ValidationSeesUnfilteredRows

\* C19 as the code has it: for a table the schema lookup found, every row
\* given to batch_create has only keys that are writable fields of its
\* definition; for a table the lookup did not find, the rows are given as
\* they were built, neither validated nor filtered; the validation of a
\* found table runs on the unfiltered rows before the filter.
C19_WritableFilterWhenDefined ==
    /\ \A t \in {"detailed", "summary"} : \A r \in SentRows(t) :
            IF LookedUp(t) # NoDef
            THEN DOMAIN r \subseteq WritableFieldnames(LookedUp(t))
            ELSE r \in BuiltRows(t)
    /\ ValidationSeesUnfilteredRows

\* detail rows built with a "Grade" were created in a table whose "Grade" is
\* a formula, after a validation and a filter
C19_Witness ==
    /\ [name |-> "Grade", type |-> "formula", choices |-> <<>>] \in detailed_def
    /\ SentRows("detailed") # {}
    /\ \A i \in 1..Len(BuiltDetailed) : "Grade" \in DOMAIN BuiltDetailed[i]
    /\ \A r \in SentRows("detailed") : "Grade" \notin DOMAIN r
    /\ {"validate", "filter", "write"} \subseteq SeqToSet(stages)

\* rows were created in a table the schema lookup did not find
C19_UnfilteredWitness ==
    /\ detailed_def = NoDef
    /\ SentRows("detailed") # {}
    /\ \E r \in SentRows("detailed") : "Grade" \in DOMAIN r

(***************************************************************************)
(* C21: batching is an exact partition (under SpecBatch)                   *)
(***************************************************************************)
RECURSIVE ConcatAll(_)
ConcatAll(batches) ==
    IF batches = <<>> THEN <<>> ELSE Head(batches) \o ConcatAll(Tail(batches))

\* the batches are not empty, hold at most 10 items, and give the list back
\* when concatenated in order
ExactPartition(batches, lst) ==
    /\ \A i \in 1..Len(batches) : Len(batches[i]) \in 1..10
    /\ ConcatAll(batches) = lst

\* the delete tasks that were handed record id r
TasksGiven(r) == {i \in 1..Len(futures) : futures[i] # "new" /\ r \in SeqToSet(chunks[i])}
\* the batch_create calls that were given row number k of table t
CreatesGiven(t, k) ==
    {b \in 1..Len(created[t]) : (b - 1) * WriteBatchSize < k /\ k <= b * WriteBatchSize}

\* C21: the ids of a wipe and the rows of an insert are cut into consecutive
\* batches of at most 10 whose concatenation is the input; every collected id
\* is in one chunk and is handed to one delete task, never to two, and started
\* exactly once when the wipe returns; with no failed call every row of a table
\* has been given to exactly one batch_create.
C21_ExactPartition ==
    /\ (wpc \in {"delete", "returned"} /\ Len(ids) > 0) =>
            /\ ExactPartition(chunks, ids)
            /\ Len(futures) = Len(chunks)
            /\ \A r \in SeqToSet(ids) :
                  /\ Cardinality({i \in 1..Len(chunks) : r \in SeqToSet(chunks[i])}) = 1
                  /\ Cardinality(TasksGiven(r)) <= 1
                  /\ (submitted = Len(chunks) => Cardinality(TasksGiven(r)) = 1)
            /\ (wpc = "returned" /\ wipeCalls = 1 => deleteCalls[wtable] = Len(chunks))
    /\ \A t \in Tables :
            /\ ExactPartition(BatchesOf(t),
                              IF t = "detailed" THEN detailed_rows ELSE summary_rows)
            /\ ExactPartition(created[t], ConcatAll(created[t]))
    /\ (pc = "returned") =>
            /\ ConcatAll(created["detailed"]) = detailed_rows
            /\ ConcatAll(created["summary"]) = summary_rows
            /\ \A k \in 1..Len(detailed_rows) : Cardinality(CreatesGiven("detailed", k)) = 1
            /\ \A k \in 1..Len(summary_rows) : Cardinality(CreatesGiven("summary", k)) = 1

\* reached: 11 ids were cut into a chunk of 10 and a chunk of 1, both handed
\* to the pool and both running at once
C21_Witness ==
    /\ wpc = "delete"
    /\ Len(ids) = 11
    /\ Len(chunks) = 2
    /\ Len(chunks[1]) = 10 /\ Len(chunks[2]) = 1
    /\ Running = {1, 2}

\* reached: both inserts returned with 21 summary rows created in batches of
\* 10, 10 and 1
C21_InsertWitness ==
    /\ pc = "returned"
    /\ Len(summary_rows) = 21
    /\ Len(created["summary"]) = 3
    /\ Len(created["summary"][3]) = 1
    /\ Len(detailed_rows) > 20

(***************************************************************************)
(* C22: the delete tasks are joined before the wipe returns (under Spec)   *)
(***************************************************************************)
\* the wipe of table t is the one main() is waiting for
WipingTable(t) == pc = (IF t = "detailed" THEN "wipe_detailed" ELSE "wipe_summary")

\* C22: when wipe_table_fast returns every delete task it submitted has
\* completed, with success or failure; never more than max(1,
\* FAST_WIPE_WORKERS) delete calls are in flight; a delete call is in flight
\* only inside the wipe of its own table, so no batch_delete of the detailed
\* table overlaps the wipe of the summary table and none overlaps a
\* batch_create.
C22_DeletesJoined ==
    /\ [](maxWorkers >= 1 /\ Cardinality(Running) <= maxWorkers)
    /\ [](wpc \in {"returned", "idle"} =>
            /\ submitted = Len(chunks)
            /\ AllFuturesDone
            /\ Running = {} /\ Queued = {})
    /\ []((Running # {} \/ Queued # {}) => (wpc = "delete" /\ WipingTable(wtable)))
    /\ []((Running # {} \/ Queued # {}) => ~SomeCreated)
    /\ [][(pc = "wipe_detailed" /\ pc' # "wipe_detailed") =>
            (AllFuturesDone /\ deleteCalls["detailed"] = Len(chunks))]_vars
    /\ [][\A t \in Tables :
            (deleteCalls'[t] # deleteCalls[t] \/ live'[t] # live[t]) =>
                (WipingTable(t) /\ wtable = t /\ created' = created /\ ~SomeCreated)]_vars
    /\ [][created' # created => (Running = {} /\ Queued = {} /\ wpc = "idle")]_vars

\* reached: with one worker a delete call is in flight and the second batch
\* waits in the queue of the pool
C22_Witness ==
    /\ pc = "wipe_detailed"
    /\ wpc = "delete"
    /\ maxWorkers = 1
    /\ Cardinality(Running) = 1
    /\ Queued # {}

\* reached: the wipe of the summary table runs after the two delete tasks of
\* the detailed table have completed, one of them with a failure
C22_JoinedWitness ==
    /\ pc = "wipe_summary"
    /\ deleteCalls["detailed"] = 2
    /\ live["detailed"] # {}
    /\ Running = {}

(***************************************************************************)
(* C23: a listing that failed and an empty table (under Spec)              *)
(***************************************************************************)
\* wipe_table_fast has printed "nothing to delete" and returned
NothingToDelete == InWipeCall /\ wpc = "returned" /\ passes = 0

\* C23: wipe_table_fast reports "nothing to delete" and skips the delete
\* phase only when the listing of the table answered and returned no record;
\* when the listing failed in both the all() and the iterate() path while the
\* table holds records, the run never goes on to create rows.
C23_ListingFailureNotEmpty ==
    /\ [](NothingToDelete => (listOk /\ live[wtable] = {}))
    /\ []((InWipeCall /\ wpc = "returned" /\ ~listOk /\ live[wtable] # {}) => [](~SomeCreated))

(***************************************************************************)
(* C24: a run without student ids (under Spec)                             *)
(***************************************************************************)
BeforeWipe == pc \in {"start", "parse", "nothing_to_do"}

\* C24: when the parsed list of student ids is empty the run ends right
\* after the preflight: no batch_delete, delete or batch_create is issued,
\* the tables hold what they held, the schema is not fetched and no student
\* is crawled; nothing follows.
C24_EmptyInputNoChange ==
    /\ [][(pc = "parse" /\ user_ids' = <<>>) => pc' = "nothing_to_do"]_vars
    /\ [](pc = "nothing_to_do" =>
            /\ user_ids = <<>>
            /\ \A t \in Tables : deleteCalls[t] = 0 /\ created[t] = <<>>
            /\ wipeCalls = 0 /\ wpc = "idle" /\ wiped = {}
            /\ stages = <<>>
            /\ crawled = <<>> /\ students_data = <<>>
            /\ detailed_def = NoDef /\ summary_def = NoDef)
    /\ [][BeforeWipe => (live' = live /\ deleteCalls' = deleteCalls /\ created' = created)]_vars
    /\ [][pc = "nothing_to_do" => vars' = vars]_vars
    /\ [](user_ids = <<>> => pc \in {"start", "parse", "nothing_to_do", "error"})

\* reached: the run has ended without ids and the 11 records of the detailed
\* table are still there
C24_Witness ==
    /\ pc = "nothing_to_do"
    /\ user_ids = <<>>
    /\ Cardinality(live["detailed"]) >= 11
    /\ \A t \in Tables : deleteCalls[t] = 0

====
